---------------------------- MODULE Spec2Model ----------------------------
(***************************************************************************)
(* A model of the core of sports-ev-tool: the EV engine                    *)
(* (utils/ev_calculator.py), the market matcher                            *)
(* (market_odds/odds_api.py), the Line schema (utils/line_schema.py), the  *)
(* Line Normalizer of the scrapers (scrapers/prizepicks.py,                *)
(* scrapers/underdog.py), the scheduler (scheduler/run_scrapers.py), and  *)
(* the mock market odds with the loop of test_phase4.py that uses them.    *)
(*                                                                         *)
(* Numbers.  The Python code computes with floats.  The model computes     *)
(* with exact rationals <<n, d>> (d > 0, lowest terms), so a float result  *)
(* and the model's result differ by the float rounding error of a handful  *)
(* of operations (relative error about 1e-15).  round(x, k) is modelled as *)
(* rounding the exact value to k decimals, ties to even.                   *)
(*                                                                         *)
(* Python outcomes.  A call either returns a value or raises:              *)
(* Return(v) = [exc |-> "none", val |-> v], Raise(e) = [exc |-> e].        *)
(* An Optional value is a sequence of length at most one: None = <<>>,     *)
(* Some(v) = <<v>>.  A str is a sequence of one-character strings.         *)
(***************************************************************************)
EXTENDS Integers, Sequences, FiniteSets, TLC

VARIABLES
    line_odds,         \* the sportsbook's odds of the Line (line_data["odds"]), American
    line_market_odds,  \* the market odds paired with the Line, American
    ev_call,           \* the EV-engine call made: its name and its other arguments
    ev_ret,            \* what that call returned or raised
    odds_data,         \* the games get_player_props returned to the matcher
    player_name,       \* the Line's player_name, a str
    market_type,       \* the Line's market_type, a str
    line_value,        \* the Line's line_value
    match_ret,         \* what the matcher returned or raised
    target_market,     \* the market key find_market_consensus was asked for
    consensus_ret,     \* what find_market_consensus returned or raised
    sportsbook,        \* the scraper that parses: "PrizePicks" or "Underdog"
    sport,             \* the sport key the scraper asked the odds of, a str
    parse_ret,         \* what the scraper's _parse_odds_to_lines returned or raised
    lines,             \* the scraped Lines handed to get_market_odds_for_lines
    lines_with_odds,   \* what get_market_odds_for_lines returned or raised
    opportunities,     \* what calculate_ev_for_lines returned or raised
    scraper_rets,      \* what the platforms' scrapers answer, in platform order
    steps,             \* the steps main has performed so far
    cache,             \* the snapshot in data/lines_cache.json, if any
    pc                 \* where main is

ev_vars == <<line_odds, line_market_odds, ev_call, ev_ret>>

match_vars == <<odds_data, player_name, market_type, line_value, match_ret>>

consensus_vars == <<target_market, consensus_ret>>

norm_vars == <<sportsbook, sport, parse_ret>>

main_vars == <<scraper_rets, steps, cache, pc>>

pipe_vars == <<lines, lines_with_odds, opportunities, main_vars>>

vars == <<line_odds, line_market_odds, ev_call, ev_ret,
          odds_data, player_name, market_type, line_value, match_ret,
          target_market, consensus_ret, sportsbook, sport, parse_ret,
          lines, lines_with_odds, opportunities, scraper_rets, steps, cache, pc>>

----------------------------------------------------------------------------
(* Bounds of the model *)

\* American odds are drawn from -MaxOdds .. MaxOdds (0 included: the invalid
\* input) and from the odds of the self-test of ev_calculator.py, both signs
MaxOdds == 15

\* stakes are drawn from 0 .. MaxBet and the default stake
MaxBet == 2

\* thresholds of is_positive_ev are drawn from -MaxThreshold .. MaxThreshold (percent)
MaxThreshold == 1

\* the matcher is handed at most MaxOutcomes market outcomes
MaxOutcomes == 2

\* random.randint(a, b) answers a, b, or a number of -MaxDraw .. MaxDraw that
\* lies between them
MaxDraw == 2

(* Program constants *)

\* bet_amount: float = 100.0
DefaultBet == 100

\* sportsbook_odds = -110 of the self-test
TestSportsbookOdds == -110

\* market_odds = +100 of the self-test
TestMarketOdds == 100

\* market_odds=+120 of the self-test of calculate_line_ev
TestLineMarketOdds == 120

\* a long-shot market price, far outside the other odds
LongShot == 200 * DefaultBet

TestOdds == {TestSportsbookOdds, TestMarketOdds, TestLineMarketOdds}

OddsDomain == ((-MaxOdds) .. MaxOdds) \cup TestOdds \cup {-a : a \in TestOdds}

MarketOddsDomain == OddsDomain \cup {LongShot}

BetAmounts == (0 .. MaxBet) \cup {DefaultBet}

Thresholds == (-MaxThreshold) .. MaxThreshold

----------------------------------------------------------------------------
(* Exact rational arithmetic *)

Abs(x) == IF x < 0 THEN -x ELSE x

RECURSIVE Gcd(_, _)
Gcd(a, b) == IF b = 0 THEN a ELSE Gcd(b, a % b)

\* the rational n/d in lowest terms with a positive denominator (d # 0)
Rat(n, d) ==
    LET g == Gcd(Abs(n), Abs(d))
        s == IF d < 0 THEN -1 ELSE 1
    IN  <<(s * n) \div g, (s * d) \div g>>

FromInt(i) == <<i, 1>>

Zero == FromInt(0)

One == FromInt(1)

RatAdd(x, y) ==
    LET g == Gcd(x[2], y[2])
    IN  Rat(x[1] * (y[2] \div g) + y[1] * (x[2] \div g), (x[2] \div g) * y[2])

RatNeg(x) == <<-x[1], x[2]>>

RatSub(x, y) == RatAdd(x, RatNeg(y))

RatMul(x, y) ==
    LET g1 == Gcd(Abs(x[1]), y[2])
        g2 == Gcd(Abs(y[1]), x[2])
    IN  Rat((x[1] \div g1) * (y[1] \div g2), (x[2] \div g2) * (y[2] \div g1))

\* x / y for y # 0
RatDiv(x, y) == RatMul(x, Rat(y[2], y[1]))

RatAbs(x) == <<Abs(x[1]), x[2]>>

RatLt(x, y) == RatSub(x, y)[1] < 0

RatGt(x, y) == RatLt(y, x)

RatLe(x, y) == ~RatLt(y, x)

RECURSIVE Pow10(_)
Pow10(k) == IF k = 0 THEN 1 ELSE 10 * Pow10(k - 1)

\* the integer nearest to x, ties to even
RoundHalfEven(x) ==
    LET fl  == x[1] \div x[2]
        rem == x[1] - fl * x[2]
    IN  IF 2 * rem < x[2] THEN fl
        ELSE IF 2 * rem > x[2] THEN fl + 1
        ELSE IF fl % 2 = 0 THEN fl ELSE fl + 1

\* Python's round(x, ndigits)
round(x, ndigits) ==
    Rat(RoundHalfEven(RatMul(x, FromInt(Pow10(ndigits)))), Pow10(ndigits))

----------------------------------------------------------------------------
(* Python outcomes *)

Return(v) == [exc |-> "none", val |-> v]

Raise(e) == [exc |-> e]

Returned(r) == r.exc = "none"

\* x / y on floats: division by zero raises
PyDiv(x, y) ==
    IF y[1] = 0 THEN Raise("ZeroDivisionError") ELSE Return(RatDiv(x, y))

----------------------------------------------------------------------------
(* utils/ev_calculator.py *)

\* q + 1, where the division q may have raised
PlusOne(q) == IF Returned(q) THEN Return(RatAdd(q.val, One)) ELSE q

\* american_to_decimal with the zero test on the wrong side (>= for >)
american_to_decimal_geq(american_odds) ==
    IF ~RatLt(american_odds, Zero)
    THEN PlusOne(PyDiv(american_odds, FromInt(100)))
    ELSE PlusOne(PyDiv(FromInt(100), RatAbs(american_odds)))

\* american_to_decimal without abs() in the negative branch
american_to_decimal_no_abs(american_odds) ==
    IF RatGt(american_odds, Zero)
    THEN PlusOne(PyDiv(american_odds, FromInt(100)))
    ELSE PlusOne(PyDiv(FromInt(100), american_odds))

\* american_to_decimal without the stake (+ 1) in the positive branch
american_to_decimal_no_stake(american_odds) ==
    IF RatGt(american_odds, Zero)
    THEN PyDiv(american_odds, FromInt(100))
    ELSE PlusOne(PyDiv(FromInt(100), RatAbs(american_odds)))

\* x // y for y > 0
FloorDiv(x, y) == FromInt(RatDiv(x, y)[1] \div RatDiv(x, y)[2])

\* american_to_decimal with floor division (//) for true division (/)
american_to_decimal_floor(american_odds) ==
    IF RatGt(american_odds, Zero)
    THEN Return(RatAdd(FloorDiv(american_odds, FromInt(100)), One))
    ELSE IF american_odds = Zero THEN Raise("ZeroDivisionError")
    ELSE Return(RatAdd(FloorDiv(FromInt(100), RatAbs(american_odds)), One))

\* american_to_decimal: American odds to decimal odds,
\* (american_odds / 100) + 1 if american_odds > 0 else
\* (100 / abs(american_odds)) + 1; the else branch is taken by 0 too
american_to_decimal(american_odds) ==
    IF RatGt(american_odds, Zero)
    THEN PlusOne(PyDiv(american_odds, FromInt(100)))
    ELSE PlusOne(PyDiv(FromInt(100), RatAbs(american_odds)))

\* decimal_to_probability: 1 / decimal_odds
decimal_to_probability(decimal_odds) == PyDiv(One, decimal_odds)

\* ToDecimal converting whatever the format is
ToDecimal_always(odds, odds_format) == american_to_decimal(odds)

\* calculate_ev, "Convert to decimal odds if needed"
ToDecimal(odds, odds_format) ==
    IF odds_format = "american" THEN american_to_decimal(odds) ELSE Return(odds)

\* calculate_ev, the values of its local variables when it reaches its
\* return statement; q is ev_dollars / bet_amount, which may have raised
EvLocals(sportsbook_decimal, market_decimal, market_probability, breakeven_probability, payout_if_win, ev_dollars, q) ==
    IF ~Returned(q) THEN q
    ELSE Return([sportsbook_decimal    |-> sportsbook_decimal,
                 market_decimal        |-> market_decimal,
                 market_probability    |-> market_probability,
                 breakeven_probability |-> breakeven_probability,
                 payout_if_win         |-> payout_if_win,
                 ev_dollars            |-> ev_dollars,
                 ev_percentage         |-> RatMul(q.val, FromInt(100))])

\* calculate_ev, "Calculate expected value":
\* ev_percentage = (ev_dollars / bet_amount) * 100
EvPercent(sportsbook_decimal, market_decimal, market_probability, breakeven_probability, payout_if_win, ev_dollars, bet_amount) ==
    EvLocals(sportsbook_decimal, market_decimal, market_probability,
             breakeven_probability, payout_if_win, ev_dollars,
             PyDiv(ev_dollars, bet_amount))

\* EvDollars with the expected value taken on the payout, not the profit
EvDollars_payout(sportsbook_decimal, market_decimal, mp, bp, bet_amount) ==
    IF ~Returned(mp) THEN mp
    ELSE IF ~Returned(bp) THEN bp
    ELSE EvPercent(sportsbook_decimal, market_decimal, mp.val, bp.val,
                   RatMul(bet_amount, sportsbook_decimal),
                   RatSub(RatMul(mp.val, RatMul(bet_amount, sportsbook_decimal)),
                          RatMul(RatSub(One, mp.val), bet_amount)),
                   bet_amount)

\* calculate_ev, "Calculate potential payout" and "Calculate expected value":
\* payout_if_win = bet_amount * sportsbook_decimal,
\* profit_if_win = payout_if_win - bet_amount,
\* ev_dollars = (market_probability * profit_if_win)
\*              - ((1 - market_probability) * bet_amount);
\* mp and bp are the two probabilities, which may have raised
EvDollars(sportsbook_decimal, market_decimal, mp, bp, bet_amount) ==
    IF ~Returned(mp) THEN mp
    ELSE IF ~Returned(bp) THEN bp
    ELSE EvPercent(sportsbook_decimal, market_decimal, mp.val, bp.val,
                   RatMul(bet_amount, sportsbook_decimal),
                   RatSub(RatMul(mp.val,
                                 RatSub(RatMul(bet_amount, sportsbook_decimal),
                                        bet_amount)),
                          RatMul(RatSub(One, mp.val), bet_amount)),
                   bet_amount)

\* EvProbabilities with the two probabilities taken from the wrong odds
EvProbabilities_swapped(sd, md, bet_amount) ==
    IF ~Returned(sd) THEN sd
    ELSE IF ~Returned(md) THEN md
    ELSE EvDollars(sd.val, md.val,
                   decimal_to_probability(sd.val),
                   decimal_to_probability(md.val), bet_amount)

\* calculate_ev, "Calculate probabilities":
\* market_probability = decimal_to_probability(market_decimal),
\* breakeven_probability = decimal_to_probability(sportsbook_decimal);
\* sd and md are the two conversions, which may have raised
EvProbabilities(sd, md, bet_amount) ==
    IF ~Returned(sd) THEN sd
    ELSE IF ~Returned(md) THEN md
    ELSE EvDollars(sd.val, md.val,
                   decimal_to_probability(md.val),
                   decimal_to_probability(sd.val), bet_amount)

\* calculate_ev up to its return statement: its local variables, not rounded
calculate_ev_locals(sportsbook_odds, market_odds, bet_amount, odds_format) ==
    EvProbabilities(ToDecimal(sportsbook_odds, odds_format),
                    ToDecimal(market_odds, odds_format), bet_amount)

\* the return statement of calculate_ev: every field rounded
RoundedResult(l) ==
    IF ~Returned(l) THEN l
    ELSE Return([ev_dollars              |-> round(l.val.ev_dollars, 2),
                 ev_percentage           |-> round(l.val.ev_percentage, 2),
                 win_probability         |-> round(l.val.market_probability, 4),
                 payout_if_win           |-> round(l.val.payout_if_win, 2),
                 breakeven_probability   |-> round(l.val.breakeven_probability, 4),
                 sportsbook_decimal_odds |-> round(l.val.sportsbook_decimal, 3),
                 market_decimal_odds     |-> round(l.val.market_decimal, 3)])

\* calculate_ev: the dictionary it returns
calculate_ev(sportsbook_odds, market_odds, bet_amount, odds_format) ==
    RoundedResult(calculate_ev_locals(sportsbook_odds, market_odds,
                                      bet_amount, odds_format))

\* AboveThreshold with >= for >
AboveThreshold_geq(ev_result, min_ev_threshold) ==
    IF ~Returned(ev_result) THEN ev_result
    ELSE Return(~RatLt(ev_result.val.ev_percentage, min_ev_threshold))

\* is_positive_ev: return ev_result["ev_percentage"] > min_ev_threshold
AboveThreshold(ev_result, min_ev_threshold) ==
    IF ~Returned(ev_result) THEN ev_result
    ELSE Return(RatGt(ev_result.val.ev_percentage, min_ev_threshold))

\* is_positive_ev: calculate_ev at the default stake, compared with the threshold
is_positive_ev(sportsbook_odds, market_odds, min_ev_threshold, odds_format) ==
    AboveThreshold(calculate_ev(sportsbook_odds, market_odds,
                                FromInt(DefaultBet), odds_format),
                   min_ev_threshold)

\* dict.update: d with the keys of u added or overwritten
DictUpdate(d, u) ==
    [k \in DOMAIN d \cup DOMAIN u |-> IF k \in DOMAIN u THEN u[k] ELSE d[k]]

\* calculate_line_ev, "Add EV data to the line": a copy of line_data, updated
EnhancedLine(line_data, market_odds, ev_result) ==
    IF ~Returned(ev_result) THEN ev_result
    ELSE Return(DictUpdate(line_data,
             [market_odds     |-> market_odds,
              ev_dollars      |-> ev_result.val.ev_dollars,
              ev_percentage   |-> ev_result.val.ev_percentage,
              win_probability |-> ev_result.val.win_probability,
              payout_if_win   |-> ev_result.val.payout_if_win,
              is_positive_ev  |-> RatGt(ev_result.val.ev_percentage, Zero)]))

\* calculate_line_ev: calculate_ev on the line's odds, American format
calculate_line_ev(line_data, market_odds) ==
    EnhancedLine(line_data, market_odds,
                 calculate_ev(line_data["odds"], market_odds,
                              FromInt(DefaultBet), "american"))

\* CopyThenUpdate without line_data.copy(): enhanced_line is line_data
\* itself, and the update is made on it
CopyThenUpdate_alias(line_data, enhanced_line) ==
    [line_data |-> IF Returned(enhanced_line) THEN enhanced_line.val ELSE line_data,
     is_new    |-> FALSE]

\* calculate_line_ev, the objects it leaves behind: enhanced_line =
\* line_data.copy() is a new dict whenever the function gets that far (it
\* returned), enhanced_line.update(...) changes the new dict, and the dict
\* the caller passed holds what it held (its values are numbers and strs)
CopyThenUpdate(line_data, enhanced_line) ==
    [line_data |-> line_data,
     is_new    |-> Returned(enhanced_line)]

----------------------------------------------------------------------------
(* Python str, as sequences of characters *)

UpperCase == <<"A", "B", "C", "D", "E", "F", "G", "H", "I", "J", "K", "L", "M", "N", "O", "P", "Q", "R", "S", "T", "U", "V", "W", "X", "Y", "Z">>

LowerCase == <<"a", "b", "c", "d", "e", "f", "g", "h", "i", "j", "k", "l", "m", "n", "o", "p", "q", "r", "s", "t", "u", "v", "w", "x", "y", "z">>

\* str.lower() on one character
LowerChar(c) ==
    IF \E i \in 1 .. Len(UpperCase) : UpperCase[i] = c
    THEN LowerCase[CHOOSE i \in 1 .. Len(UpperCase) : UpperCase[i] = c]
    ELSE c

\* str.lower()
lower(s) == [i \in 1 .. Len(s) |-> LowerChar(s[i])]

\* sub in s
StrIn(sub, s) ==
    \E i \in 0 .. (Len(s) - Len(sub)) : SubSeq(s, i + 1, i + Len(sub)) = sub

\* dict.get(key) and dict.get(key, default), the result an Optional
DictGet(d, key) == IF key \in DOMAIN d THEN <<d[key]>> ELSE <<>>

DictGetOr(d, key, default) == IF key \in DOMAIN d THEN d[key] ELSE default

----------------------------------------------------------------------------
(* market_odds/odds_api.py: the market matcher *)

STR_points == <<"p", "o", "i", "n", "t", "s">>

STR_rebounds == <<"r", "e", "b", "o", "u", "n", "d", "s">>

STR_assists == <<"a", "s", "s", "i", "s", "t", "s">>

STR_touchdowns == <<"t", "o", "u", "c", "h", "d", "o", "w", "n", "s">>

STR_player_points == <<"p", "l", "a", "y", "e", "r", "_", "p", "o", "i", "n", "t", "s">>

STR_player_rebounds == <<"p", "l", "a", "y", "e", "r", "_", "r", "e", "b", "o", "u", "n", "d", "s">>

STR_player_assists == <<"p", "l", "a", "y", "e", "r", "_", "a", "s", "s", "i", "s", "t", "s">>

STR_player_touchdowns == <<"p", "l", "a", "y", "e", "r", "_", "t", "o", "u", "c", "h", "d", "o", "w", "n", "s">>

\* market_mapping.get(market_type.lower())
market_mapping(key) ==
    IF key = STR_points THEN <<STR_player_points>>
    ELSE IF key = STR_rebounds THEN <<STR_player_rebounds>>
    ELSE IF key = STR_assists THEN <<STR_player_assists>>
    ELSE IF key = STR_touchdowns THEN <<STR_player_touchdowns>>
    ELSE <<>>

\* the test on an outcome with a case-sensitive comparison of the name
OutcomeMatches_case(outcome, name, value) ==
    /\ StrIn(name, DictGetOr(outcome, "description", <<>>))
    /\ DictGet(outcome, "point") = <<value>>

\* the test on an outcome without the comparison of the point
OutcomeMatches_any_point(outcome, name, value) ==
    StrIn(lower(name), lower(DictGetOr(outcome, "description", <<>>)))

\* the test get_market_odds_for_player makes on an outcome:
\* player_name.lower() in outcome.get('description', '').lower()
\* and outcome.get('point') == line_value
OutcomeMatches(outcome, name, value) ==
    /\ StrIn(lower(name), lower(DictGetOr(outcome, "description", <<>>)))
    /\ DictGet(outcome, "point") = <<value>>

\* The four nested loops of get_market_odds_for_player, from position i on.
\* Each gives Return(<<price>>) when a return statement was reached,
\* Return(<<>>) when the loop ran to its end, or the exception raised.
\* ScanOutcomes keeping the last match of the list in place of the first
RECURSIVE ScanOutcomes_last(_, _, _, _)
ScanOutcomes_last(outcomes, i, name, value) ==
    IF i > Len(outcomes) THEN Return(<<>>)
    ELSE IF ScanOutcomes_last(outcomes, i + 1, name, value) # Return(<<>>)
         THEN ScanOutcomes_last(outcomes, i + 1, name, value)
         ELSE IF OutcomeMatches(outcomes[i], name, value)
              THEN IF "price" \in DOMAIN outcomes[i]
                   THEN Return(<<outcomes[i]["price"]>>)
                   ELSE Raise("KeyError")
              ELSE Return(<<>>)

RECURSIVE ScanOutcomes(_, _, _, _)
ScanOutcomes(outcomes, i, name, value) ==
    IF i > Len(outcomes) THEN Return(<<>>)
    ELSE IF OutcomeMatches(outcomes[i], name, value)
         THEN IF "price" \in DOMAIN outcomes[i]
              THEN Return(<<outcomes[i]["price"]>>)
              ELSE Raise("KeyError")
         ELSE ScanOutcomes(outcomes, i + 1, name, value)

RECURSIVE ScanMarkets(_, _, _, _, _)
ScanMarkets(markets, i, api_market, name, value) ==
    IF i > Len(markets) THEN Return(<<>>)
    ELSE IF "key" \notin DOMAIN markets[i] THEN Raise("KeyError")
    ELSE LET r == IF markets[i]["key"] = api_market
                  THEN ScanOutcomes(DictGetOr(markets[i], "outcomes", <<>>),
                                    1, name, value)
                  ELSE Return(<<>>)
         IN  IF r = Return(<<>>)
             THEN ScanMarkets(markets, i + 1, api_market, name, value)
             ELSE r

RECURSIVE ScanBookmakers(_, _, _, _, _)
ScanBookmakers(bookmakers, i, api_market, name, value) ==
    IF i > Len(bookmakers) THEN Return(<<>>)
    ELSE LET r == ScanMarkets(DictGetOr(bookmakers[i], "markets", <<>>),
                              1, api_market, name, value)
         IN  IF r = Return(<<>>)
             THEN ScanBookmakers(bookmakers, i + 1, api_market, name, value)
             ELSE r

RECURSIVE ScanGames(_, _, _, _, _)
ScanGames(games, i, api_market, name, value) ==
    IF i > Len(games) THEN Return(<<>>)
    ELSE LET r == ScanBookmakers(DictGetOr(games[i], "bookmakers", <<>>),
                                 1, api_market, name, value)
         IN  IF r = Return(<<>>)
             THEN ScanGames(games, i + 1, api_market, name, value)
             ELSE r

\* get_market_odds_for_player without its except clause
get_market_odds_for_player_no_except(fetched, name, mtype, value) ==
    LET api_market == market_mapping(lower(mtype))
    IN  IF api_market = <<>> THEN Return(<<>>)
        ELSE ScanGames(fetched, 1, api_market[1], name, value)

\* get_market_odds_for_player, with fetched standing for what
\* api_client.get_player_props(sport, markets=api_market) returned: an
\* unsupported market type gives None; any exception inside the try block is
\* caught and gives None
get_market_odds_for_player(fetched, name, mtype, value) ==
    LET api_market == market_mapping(lower(mtype))
    IN  IF api_market = <<>> THEN Return(<<>>)
        ELSE LET r == ScanGames(fetched, 1, api_market[1], name, value)
             IN  IF Returned(r) THEN r ELSE Return(<<>>)

\* sum(all_odds)
RECURSIVE sum(_)
sum(all_odds) == IF all_odds = <<>> THEN 0 ELSE Head(all_odds) + sum(Tail(all_odds))

\* The loops of find_market_consensus, from position i on, all_odds being the
\* list collected so far: Return(all_odds) when the loop ran to its end, or
\* the exception raised (nothing catches it).
RECURSIVE CollectOutcomes(_, _, _)
CollectOutcomes(outcomes, i, all_odds) ==
    IF i > Len(outcomes) THEN Return(all_odds)
    ELSE IF "price" \notin DOMAIN outcomes[i] THEN Raise("KeyError")
    ELSE CollectOutcomes(outcomes, i + 1, Append(all_odds, outcomes[i]["price"]))

\* CollectMarkets without the test of the market key
RECURSIVE CollectMarkets_any_key(_, _, _, _)
CollectMarkets_any_key(markets, i, target, all_odds) ==
    IF i > Len(markets) THEN Return(all_odds)
    ELSE IF "key" \notin DOMAIN markets[i] THEN Raise("KeyError")
    ELSE LET r == CollectOutcomes(DictGetOr(markets[i], "outcomes", <<>>),
                                  1, all_odds)
         IN  IF Returned(r)
             THEN CollectMarkets_any_key(markets, i + 1, target, r.val)
             ELSE r

RECURSIVE CollectMarkets(_, _, _, _)
CollectMarkets(markets, i, target, all_odds) ==
    IF i > Len(markets) THEN Return(all_odds)
    ELSE IF "key" \notin DOMAIN markets[i] THEN Raise("KeyError")
    ELSE IF markets[i]["key"] # target
         THEN CollectMarkets(markets, i + 1, target, all_odds)
    ELSE LET r == CollectOutcomes(DictGetOr(markets[i], "outcomes", <<>>),
                                  1, all_odds)
         IN  IF Returned(r)
             THEN CollectMarkets(markets, i + 1, target, r.val)
             ELSE r

RECURSIVE CollectBookmakers(_, _, _, _)
CollectBookmakers(bookmakers, i, target, all_odds) ==
    IF i > Len(bookmakers) THEN Return(all_odds)
    ELSE LET r == CollectMarkets(DictGetOr(bookmakers[i], "markets", <<>>),
                                 1, target, all_odds)
         IN  IF Returned(r)
             THEN CollectBookmakers(bookmakers, i + 1, target, r.val)
             ELSE r

RECURSIVE CollectGames(_, _, _, _)
CollectGames(games, i, target, all_odds) ==
    IF i > Len(games) THEN Return(all_odds)
    ELSE LET r == CollectBookmakers(DictGetOr(games[i], "bookmakers", <<>>),
                                    1, target, all_odds)
         IN  IF Returned(r)
             THEN CollectGames(games, i + 1, target, r.val)
             ELSE r

\* find_market_consensus, from "if not all_odds" on: None for an empty list,
\* else sum(all_odds) / len(all_odds); collected may have raised
Consensus(collected) ==
    IF ~Returned(collected) THEN collected
    ELSE IF collected.val = <<>> THEN Return(<<>>)
    ELSE Return(<<Rat(sum(collected.val), Len(collected.val))>>)

\* find_market_consensus(odds_data, target_market)
find_market_consensus(games, target) ==
    Consensus(CollectGames(games, 1, target, <<>>))

----------------------------------------------------------------------------
(* utils/line_schema.py *)

\* str.upper() on one character
UpperChar(c) ==
    IF \E i \in 1 .. Len(LowerCase) : LowerCase[i] = c
    THEN UpperCase[CHOOSE i \in 1 .. Len(LowerCase) : LowerCase[i] = c]
    ELSE c

\* str.upper()
upper(s) == [i \in 1 .. Len(s) |-> UpperChar(s[i])]

\* str.replace(old, new): every occurrence of old (not empty), found from
\* left to right without overlap, becomes new
RECURSIVE replace(_, _, _)
replace(s, old, new) ==
    IF Len(s) < Len(old) THEN s
    ELSE IF SubSeq(s, 1, Len(old)) = old
         THEN new \o replace(SubSeq(s, Len(old) + 1, Len(s)), old, new)
         ELSE <<Head(s)>> \o replace(Tail(s), old, new)

Digits == <<"0", "1", "2", "3", "4", "5", "6", "7", "8", "9">>

\* str(n) for an int n >= 0
RECURSIVE IntStr(_)
IntStr(n) ==
    IF n < 10 THEN <<Digits[n + 1]>>
    ELSE IntStr(n \div 10) \o <<Digits[(n % 10) + 1]>>

\* the decimals of f, 0 <= f < 1, a fraction with a finite decimal expansion:
\* at least one digit, no trailing zero after it
RECURSIVE FracStr(_)
FracStr(f) ==
    <<Digits[((10 * f[1]) \div f[2]) + 1]>>
      \o (IF (10 * f[1]) % f[2] = 0 THEN <<>>
          ELSE FracStr(Rat((10 * f[1]) % f[2], f[2])))

\* str(x) for a float x of moderate size whose shortest decimal text is
\* finite (25.5 gives "25.5", 25.0 gives "25.0")
FloatStr(x) ==
    (IF x[1] < 0 THEN <<"-">> ELSE <<>>)
      \o IntStr(Abs(x[1]) \div x[2])
      \o <<".">>
      \o FracStr(Rat(Abs(x[1]) % x[2], x[2]))

STR_underscore == <<"_">>

STR_space == <<" ">>

STR_over == <<"o", "v", "e", "r">>

STR_under == <<"u", "n", "d", "e", "r">>

STR_abc == <<"a", "b", "c">>

\* the values a field that should hold a number can hold without being one
NonNumeric == {STR_abc}

\* isinstance(x, (int, float))
IsNumber(x) == x \notin NonNumeric

\* f"{x}" for a float or a str x
Format(x) == IF IsNumber(x) THEN FloatStr(x) ELSE x

\* float(x): a number converts to a float of the same value, a str that is
\* not the text of a number raises
float(x) == IF IsNumber(x) THEN Return(x) ELSE Raise("ValueError")

\* a datetime, known by its ISO text
Datetime(iso) == [type |-> "datetime", iso |-> iso]

\* x.isoformat() if isinstance(x, datetime) else x
IsoOrSelf(x) == IF x.type = "datetime" THEN x.iso ELSE x

\* create_line_schema, "unique_id":
\* f"{sportsbook}_{sport}_{player_name}_{market_type}_{line_value}_{over_under}"
\*   .replace(" ", "_").lower()
UniqueId(book, sp, name, mtype, value, over_under) ==
    lower(replace(book \o STR_underscore \o sp \o STR_underscore \o name
                    \o STR_underscore \o mtype \o STR_underscore
                    \o Format(value) \o STR_underscore \o over_under,
                  STR_space, STR_underscore))

\* create_line_schema with the odds made part of the unique_id
create_line_schema_odds_in_id(book, sp, league, event_name, name, mtype, value, odds, over_under, event_date, scraped_at, now) ==
    [sportsbook  |-> book,
     sport       |-> sp,
     league      |-> league,
     event_name  |-> event_name,
     player_name |-> name,
     market_type |-> mtype,
     line_value  |-> value,
     odds        |-> odds,
     over_under  |-> lower(over_under),
     event_date  |-> IsoOrSelf(event_date),
     scraped_at  |-> IsoOrSelf(IF scraped_at = <<>> THEN now ELSE scraped_at[1]),
     unique_id   |-> UniqueId(book, sp, name, mtype, value, over_under)
                       \o STR_underscore \o Format(odds)]

\* create_line_schema; now is what datetime.now() answers when scraped_at is
\* None (an Optional)
create_line_schema(book, sp, league, event_name, name, mtype, value, odds, over_under, event_date, scraped_at, now) ==
    [sportsbook  |-> book,
     sport       |-> sp,
     league      |-> league,
     event_name  |-> event_name,
     player_name |-> name,
     market_type |-> mtype,
     line_value  |-> value,
     odds        |-> odds,
     over_under  |-> lower(over_under),
     event_date  |-> IsoOrSelf(event_date),
     scraped_at  |-> IsoOrSelf(IF scraped_at = <<>> THEN now ELSE scraped_at[1]),
     unique_id   |-> UniqueId(book, sp, name, mtype, value, over_under)]

required_fields ==
    {"sportsbook", "sport", "league", "event_name", "player_name",
     "market_type", "line_value", "odds", "over_under", "event_date",
     "scraped_at", "unique_id"}

\* validate_line_schema
validate_line_schema(line_data) ==
    IF \E field \in required_fields : field \notin DOMAIN line_data THEN FALSE
    ELSE IF ~IsNumber(line_data["line_value"]) THEN FALSE
    ELSE IF ~IsNumber(line_data["odds"]) THEN FALSE
    ELSE IF lower(line_data["over_under"]) \notin {STR_over, STR_under} THEN FALSE
    ELSE TRUE

----------------------------------------------------------------------------
(* scrapers/prizepicks.py and scrapers/underdog.py: the Line Normalizer.  The *)
(* two scrapers differ in the name of the sportsbook and the key of the      *)
(* bookmaker only; book is the name.                                         *)

STR_PrizePicks == <<"P", "r", "i", "z", "e", "P", "i", "c", "k", "s">>

STR_Underdog == <<"U", "n", "d", "e", "r", "d", "o", "g">>

STR_basketball_nba == <<"b", "a", "s", "k", "e", "t", "b", "a", "l", "l", "_", "n", "b", "a">>

STR_americanfootball_nfl == <<"a", "m", "e", "r", "i", "c", "a", "n", "f", "o", "o", "t", "b", "a", "l", "l", "_", "n", "f", "l">>

STR_baseball_mlb == <<"b", "a", "s", "e", "b", "a", "l", "l", "_", "m", "l", "b">>

STR_icehockey_nhl == <<"i", "c", "e", "h", "o", "c", "k", "e", "y", "_", "n", "h", "l">>

STR_NBA == <<"N", "B", "A">>

STR_NFL == <<"N", "F", "L">>

STR_MLB == <<"M", "L", "B">>

STR_NHL == <<"N", "H", "L">>

STR_player == <<"p", "l", "a", "y", "e", "r">>

STR_player_ == <<"p", "l", "a", "y", "e", "r", "_">>

STR__alternate == <<"_", "a", "l", "t", "e", "r", "n", "a", "t", "e">>

STR_less == <<"l", "e", "s", "s">>

STR_more == <<"m", "o", "r", "e">>

\* the key of the bookmaker whose markets the scraper reads
BookmakerKey(book) == IF book = STR_PrizePicks THEN "prizepicks" ELSE "underdog"

\* _convert_sport_key: mapping.get(sport_key, sport_key.upper())
convert_sport_key(sport_key) ==
    IF sport_key = STR_basketball_nba THEN STR_NBA
    ELSE IF sport_key = STR_americanfootball_nfl THEN STR_NFL
    ELSE IF sport_key = STR_baseball_mlb THEN STR_MLB
    ELSE IF sport_key = STR_icehockey_nhl THEN STR_NHL
    ELSE upper(sport_key)

\* the commence_time texts datetime.fromisoformat reads (after 'Z' is
\* replaced by '+00:00')
CommenceTimes == {"2024-01-15T20:00:00Z"}

\* datetime.fromisoformat(date_string.replace('Z', '+00:00'))
fromisoformat(date_string) ==
    IF date_string \in CommenceTimes
    THEN Return(Datetime(date_string))
    ELSE Raise("ValueError")

\* f"{game.get('away_team')} @ {game.get('home_team')}", as its three parts
EventName(game) ==
    <<DictGetOr(game, "away_team", "None"), "@", DictGetOr(game, "home_team", "None")>>

\* MarketTypeOf removing the prefix 'player_' only, not '_alternate'
MarketTypeOf_prefix_only(market_key) == replace(market_key, STR_player_, <<>>)

\* _parse_player_market, "Extract market type":
\* market_key.replace('player_', '').replace('_alternate', '')
MarketTypeOf(market_key) ==
    replace(replace(market_key, STR_player_, <<>>), STR__alternate, <<>>)

\* InferOverUnder with the test for 'over' made before the test for 'under'
InferOverUnder_over_first(description) ==
    IF StrIn(STR_over, lower(description)) \/ StrIn(STR_more, lower(description))
    THEN STR_over
    ELSE IF StrIn(STR_under, lower(description)) \/ StrIn(STR_less, lower(description))
         THEN STR_under
         ELSE STR_over

\* _parse_player_market, "Determine over/under from description or default
\* to over"
InferOverUnder(description) ==
    IF StrIn(STR_under, lower(description)) \/ StrIn(STR_less, lower(description))
    THEN STR_under
    ELSE IF StrIn(STR_over, lower(description)) \/ StrIn(STR_more, lower(description))
         THEN STR_over
         ELSE STR_over

\* what _parse_player_market is handed besides the market, and the clock
Context(event_name, event_date, sp, book, now) ==
    [event_name |-> event_name, event_date |-> event_date, sport |-> sp,
     sportsbook |-> book, now |-> now]

\* _parse_player_market, lines.append(create_line_schema(...)); value is
\* float(line_value), which may have raised
AppendLine(acc, outcome, mtype, ctx, value) ==
    IF ~Returned(value) THEN value
    ELSE Return(Append(acc,
           create_line_schema(ctx.sportsbook,
                              convert_sport_key(ctx.sport),
                              convert_sport_key(ctx.sport),
                              ctx.event_name,
                              DictGetOr(outcome, "name", <<>>),
                              mtype,
                              value.val,
                              DictGetOr(outcome, "price", Zero),
                              InferOverUnder(DictGetOr(outcome, "description", <<>>)),
                              ctx.event_date,
                              <<>>,
                              ctx.now)))

\* ParseOutcome asking for the player name only
ParseOutcome_name_only(acc, outcome, mtype, ctx) ==
    IF DictGetOr(outcome, "name", <<>>) # <<>>
    THEN AppendLine(acc, outcome, mtype, ctx,
                    IF "point" \in DOMAIN outcome THEN float(outcome["point"])
                    ELSE Raise("TypeError"))
    ELSE Return(acc)

\* _parse_player_market, one turn of its loop: a Line is appended
\* "if player_name and line_value is not None"
ParseOutcome(acc, outcome, mtype, ctx) ==
    IF DictGetOr(outcome, "name", <<>>) # <<>> /\ DictGet(outcome, "point") # <<>>
    THEN AppendLine(acc, outcome, mtype, ctx, float(outcome["point"]))
    ELSE Return(acc)

\* the loop of _parse_player_market from outcome i on, acc being the lines
\* so far: Return(lines) or the exception raised
RECURSIVE ParseOutcomes(_, _, _, _, _)
ParseOutcomes(outcomes, i, mtype, ctx, acc) ==
    IF i > Len(outcomes) THEN Return(acc)
    ELSE LET r == ParseOutcome(acc, outcomes[i], mtype, ctx)
         IN  IF Returned(r)
             THEN ParseOutcomes(outcomes, i + 1, mtype, ctx, r.val)
             ELSE r

\* _parse_player_market(market, event_name, event_date, sport)
parse_player_market(market, ctx) ==
    ParseOutcomes(DictGetOr(market, "outcomes", <<>>), 1,
                  MarketTypeOf(DictGetOr(market, "key", <<>>)), ctx, <<>>)

\* lines.extend(more), where more may have raised
Extend(acc, more) == IF Returned(more) THEN Return(acc \o more.val) ELSE more

\* the loops of _parse_odds_to_lines, acc being the lines so far
RECURSIVE ParseMarkets(_, _, _, _)
ParseMarkets(markets, i, ctx, acc) ==
    IF i > Len(markets) THEN Return(acc)
    ELSE LET r == IF StrIn(STR_player, DictGetOr(markets[i], "key", <<>>))
                  THEN Extend(acc, parse_player_market(markets[i], ctx))
                  ELSE Return(acc)
         IN  IF Returned(r) THEN ParseMarkets(markets, i + 1, ctx, r.val) ELSE r

RECURSIVE ParseBookmakers(_, _, _, _)
ParseBookmakers(bookmakers, i, ctx, acc) ==
    IF i > Len(bookmakers) THEN Return(acc)
    ELSE LET r == IF DictGet(bookmakers[i], "key") # <<BookmakerKey(ctx.sportsbook)>>
                  THEN Return(acc)
                  ELSE ParseMarkets(DictGetOr(bookmakers[i], "markets", <<>>),
                                    1, ctx, acc)
         IN  IF Returned(r) THEN ParseBookmakers(bookmakers, i + 1, ctx, r.val) ELSE r

\* one game of _parse_odds_to_lines; event_date may have raised
ParseGame(game, event_date, sp, book, now, acc) ==
    IF ~Returned(event_date) THEN event_date
    ELSE ParseBookmakers(DictGetOr(game, "bookmakers", <<>>), 1,
                         Context(EventName(game), event_date.val, sp, book, now),
                         acc)

RECURSIVE ParseGames(_, _, _, _, _, _)
ParseGames(games, i, sp, book, now, acc) ==
    IF i > Len(games) THEN Return(acc)
    ELSE LET r == ParseGame(games[i],
                            fromisoformat(DictGetOr(games[i], "commence_time", "")),
                            sp, book, now, acc)
         IN  IF Returned(r) THEN ParseGames(games, i + 1, sp, book, now, r.val) ELSE r

\* _parse_odds_to_lines(odds_data, sport) of the scraper of sportsbook book
parse_odds_to_lines(games, sp, book, now) == ParseGames(games, 1, sp, book, now, <<>>)

----------------------------------------------------------------------------
(* scheduler/run_scrapers.py, and the callers of calculate_ev that hand it *)
(* records                                                                 *)

\* "Limit to first 20 to conserve API credits"
ApiCreditLimit == 20

\* list[:n]
Take(list, n) == SubSeq(list, 1, IF Len(list) < n THEN Len(list) ELSE n)

\* get_market_odds_for_lines, the body of its try up to the lookup:
\* line['player_name'] is read for the progress message, then
\* odds_client.get_market_odds_for_line is looked up.  OddsAPIClient defines
\* get_sports, get_odds and get_player_props and no other method, so the
\* lookup raises AttributeError
get_market_odds_for_line(line) ==
    IF "player_name" \notin DOMAIN line THEN Raise("KeyError")
    ELSE Raise("AttributeError")

\* get_market_odds_for_lines, one turn of its loop: "except Exception:
\* continue" keeps the list as it is, a truthy market_odds is stored in the
\* line and the line appended
MatchLine(acc, line, market_odds) ==
    IF ~Returned(market_odds) THEN acc
    ELSE IF market_odds.val # <<>> /\ market_odds.val # <<0>>
         THEN Append(acc, DictUpdate(line, [market_odds |-> market_odds.val[1]]))
         ELSE acc

\* the loop of get_market_odds_for_lines from line i on
RECURSIVE MatchLines(_, _, _)
MatchLines(list, i, acc) ==
    IF i > Len(list) THEN acc
    ELSE MatchLines(list, i + 1,
                    MatchLine(acc, list[i], get_market_odds_for_line(list[i])))

\* get_market_odds_for_lines(lines)
get_market_odds_for_lines(list) == MatchLines(Take(list, ApiCreditLimit), 1, <<>>)

STR_Sample_Player == <<"S", "a", "m", "p", "l", "e", " ", "P", "l", "a", "y", "e", "r">>

STR_FanDuel == <<"F", "a", "n", "D", "u", "e", "l">>

STR_DraftKings == <<"D", "r", "a", "f", "t", "K", "i", "n", "g", "s">>

STR_BetMGM == <<"B", "e", "t", "M", "G", "M">>

\* test_complete_pipeline_v2.py, "Create sample line and market odds for EV
\* demonstration"
sample_line ==
    [sportsbook  |-> STR_PrizePicks,
     player_name |-> STR_Sample_Player,
     market_type |-> STR_points,
     line_value  |-> Rat(51, 2),
     odds        |-> FromInt(TestSportsbookOdds),
     over_under  |-> STR_over]

sample_market_odds ==
    <<[sportsbook |-> STR_FanDuel, odds |-> FromInt(-120)],
      [sportsbook |-> STR_DraftKings, odds |-> FromInt(-105)],
      [sportsbook |-> STR_BetMGM, odds |-> FromInt(-115)]>>

\* calculate_ev(line, market_odds) handed a dict as sportsbook_odds, in the
\* default American format: american_to_decimal(sportsbook_odds) is the first
\* thing computed, and its test "american_odds > 0" on a dict raises TypeError
calculate_ev_of_record(line, market_odds) == Raise("TypeError")

\* calculate_ev_for_lines, the rest of the try once calculate_ev has answered:
\* "except Exception: continue" keeps the list as it is, a result whose
\* ev_percentage is above 0 is merged over the line, {**line, **ev_result},
\* and appended
KeepPositiveEv(acc, line, ev_result) ==
    IF ~Returned(ev_result) THEN acc
    ELSE IF RatGt(ev_result.val.ev_percentage, Zero)
         THEN Append(acc, DictUpdate(line, ev_result.val))
         ELSE acc

\* calculate_ev_for_lines, one turn of its loop: calculate_ev(line,
\* line['market_odds']) is handed the line itself
EvOfLine(acc, line) ==
    IF "market_odds" \notin DOMAIN line THEN acc
    ELSE KeepPositiveEv(acc, line, calculate_ev_of_record(line, line.market_odds))

\* the loop of calculate_ev_for_lines from line i on
RECURSIVE EvOfLines(_, _, _)
EvOfLines(list, i, acc) ==
    IF i > Len(list) THEN acc
    ELSE EvOfLines(list, i + 1, EvOfLine(acc, list[i]))

\* calculate_ev_for_lines(lines_with_odds)
calculate_ev_for_lines(list) == EvOfLines(list, 1, <<>>)

STR_Fliff == <<"F", "l", "i", "f", "f">>

\* run_all_scrapers, the dict scrapers: the platforms in the order they are run
Platforms == <<STR_PrizePicks, STR_Underdog, STR_Fliff>>

\* run_all_scrapers with a failure throwing away what was scraped before it
ExtendWith_discard(all_lines, ret) ==
    IF Returned(ret) THEN all_lines \o ret.val ELSE <<>>

\* run_all_scrapers, one turn of its loop, ret being what scraper_func()
\* answered: all_lines.extend(lines) when it returned, and "except Exception:
\* continue" when it raised, which leaves all_lines as it is
ExtendWith(all_lines, ret) ==
    IF Returned(ret) THEN all_lines \o ret.val ELSE all_lines

\* the loop of run_all_scrapers from platform i on
RECURSIVE RunScrapers(_, _, _)
RunScrapers(rets, i, all_lines) ==
    IF i > Len(rets) THEN all_lines
    ELSE RunScrapers(rets, i + 1, ExtendWith(all_lines, rets[i]))

\* run_all_scrapers(), rets being what the scrapers answer in platform order
run_all_scrapers(rets) == RunScrapers(rets, 1, <<>>)

STR_Jayson_Tatum == <<"J", "a", "y", "s", "o", "n", " ", "T", "a", "t", "u", "m">>

STR_Tyrese_Haliburton == <<"T", "y", "r", "e", "s", "e", " ", "H", "a", "l", "i", "b", "u", "r", "t", "o", "n">>

STR_Myles_Turner == <<"M", "y", "l", "e", "s", " ", "T", "u", "r", "n", "e", "r">>

STR_Celtics_at_Pacers == <<"C", "e", "l", "t", "i", "c", "s", " ", "@", " ", "P", "a", "c", "e", "r", "s">>

\* one record of create_sample_opportunities
SampleOpportunity(book, name, mtype, value, odds, ev, profit, market, now) ==
    [sportsbook      |-> book,
     sport           |-> STR_NBA,
     player_name     |-> name,
     market_type     |-> mtype,
     line_value      |-> value,
     over_under      |-> STR_over,
     odds            |-> odds,
     ev_percentage   |-> ev,
     expected_profit |-> profit,
     event_name      |-> STR_Celtics_at_Pacers,
     event_date      |-> now.iso,
     market_odds     |-> market]

\* create_sample_opportunities(); now is what datetime.now() answers
create_sample_opportunities(now) ==
    <<SampleOpportunity(STR_PrizePicks, STR_Jayson_Tatum, STR_points, Rat(57, 2),
                        FromInt(-110), Rat(83, 10), Rat(827, 100),
                        <<[sportsbook |-> STR_FanDuel, odds |-> FromInt(-125)],
                          [sportsbook |-> STR_DraftKings, odds |-> FromInt(-120)]>>, now),
      SampleOpportunity(STR_Underdog, STR_Tyrese_Haliburton, STR_assists, Rat(19, 2),
                        FromInt(105), Rat(42, 10), Rat(418, 100),
                        <<[sportsbook |-> STR_FanDuel, odds |-> FromInt(100)],
                          [sportsbook |-> STR_BetMGM, odds |-> FromInt(110)]>>, now),
      SampleOpportunity(STR_PrizePicks, STR_Myles_Turner, STR_rebounds, Rat(15, 2),
                        FromInt(-105), Rat(121, 10), Rat(1205, 100),
                        <<[sportsbook |-> STR_FanDuel, odds |-> FromInt(-130)],
                          [sportsbook |-> STR_DraftKings, odds |-> FromInt(-125)]>>, now)>>

\* save_opportunities_to_cache, cache_data: what is written to
\* data/lines_cache.json
cache_data(opps, now) ==
    [timestamp     |-> now.iso,
     opportunities |-> opps,
     total_count   |-> Len(opps)]

\* main without its fallback to the sample opportunities
SelectOpportunities_no_fallback(all_lines, found, now) == calculate_ev_for_lines(found)

\* main, steps 2 and 3, the lines scraped being all_lines: the opportunities
\* are the sample ones when nothing was scraped or nothing obtained market
\* odds, and the ones calculate_ev_for_lines answers otherwise
SelectOpportunities(all_lines, found, now) ==
    IF all_lines = <<>> \/ found = <<>> THEN create_sample_opportunities(now)
    ELSE calculate_ev_for_lines(found)

\* main, the steps 2 and 3 it performs for all_lines
StepsAfterScrape(all_lines, found) ==
    IF all_lines = <<>> THEN <<>>
    ELSE IF found = <<>> THEN <<"match">>
    ELSE <<"match", "compute">>

----------------------------------------------------------------------------
(* market_odds/odds_api.py, get_mock_market_odds, and the loop of *)
(* test_phase4.py that pairs every scraped Line with it           *)

\* what random.randint(a, b) can answer: ValueError when a > b (the range is
\* empty), and otherwise any of the integers from a to b
randint(a, b) ==
    IF a > b THEN {Raise("ValueError")}
    ELSE {Return(FromInt(n)) :
            n \in {m \in a .. b : m \in {a, b} \/ (-MaxDraw <= m /\ m <= MaxDraw)}}

\* get_mock_market_odds, base_odds_ranges
base_odds_ranges ==
    [k \in {STR_points, STR_rebounds, STR_assists, STR_touchdowns} |->
        IF k = STR_points THEN <<-120, 100>>
        ELSE IF k = STR_rebounds THEN <<-115, 105>>
        ELSE IF k = STR_assists THEN <<-110, 110>>
        ELSE <<150, -180>>]

\* get_mock_market_odds, odds_range
odds_range(mtype) == DictGetOr(base_odds_ranges, lower(mtype), <<-110, 110>>)

\* get_mock_market_odds(sport, player_name, market_type, line_value): what it
\* can answer
get_mock_market_odds(sp, name, mtype, value) ==
    randint(odds_range(mtype)[1], odds_range(mtype)[2])

\* test_phase4.py, one turn of the loop "for line in prizepicks_lines" once
\* get_mock_market_odds has answered market_odds: nothing is caught, so an
\* exception of get_mock_market_odds or of calculate_line_ev ends the loop
EnhanceLine(enhanced_lines, line, market_odds) ==
    IF ~Returned(market_odds) THEN market_odds
    ELSE IF ~Returned(calculate_line_ev(line, market_odds.val))
         THEN calculate_line_ev(line, market_odds.val)
         ELSE Return(Append(enhanced_lines, calculate_line_ev(line, market_odds.val).val))

----------------------------------------------------------------------------
(* The EV engine as a state machine: the inputs are drawn, then one call is made *)

STR_LeBron_James == <<"L", "e", "B", "r", "o", "n", " ", "J", "a", "m", "e", "s">>

STR_Lakers_vs_Warriors == <<"L", "a", "k", "e", "r", "s", " ", "v", "s", " ", "W", "a", "r", "r", "i", "o", "r", "s">>

\* what datetime.now() answers
Clock == {Datetime("2024-01-15T12:00:00"), Datetime("2024-01-15T12:00:01")}

\* the Line the EV engine is handed: the sample line of ev_calculator.py's
\* self-test, with the odds under test; now is what datetime.now() answers
SampleLine(odds, now) ==
    create_line_schema(STR_PrizePicks, STR_NBA, STR_NBA, STR_Lakers_vs_Warriors,
                       STR_LeBron_James, STR_points, Rat(51, 2), odds, STR_over,
                       Datetime("2024-01-15T20:00:00"), <<>>, now)

NoCall == [name |-> "none"]

\* the EV engine before any call
IdleEV ==
    /\ ev_call = NoCall
    /\ ev_ret = Raise("not called")

\* the matcher before any call, with nothing fetched
IdleMatch ==
    /\ odds_data = <<>>
    /\ player_name = <<>>
    /\ market_type = <<>>
    /\ line_value = Zero
    /\ match_ret = Raise("not called")

\* find_market_consensus before any call
IdleConsensus ==
    /\ target_market = <<>>
    /\ consensus_ret = Raise("not called")

\* the scrapers before any call, with no sport asked for
IdleNorm ==
    /\ sportsbook = <<>>
    /\ sport = <<>>
    /\ parse_ret = Raise("not called")

\* main before it runs
IdleMain ==
    /\ scraper_rets = <<>>
    /\ steps = <<>>
    /\ cache = <<>>
    /\ pc = "not running"

\* the scheduler before any call, with nothing scraped
IdlePipe ==
    /\ lines = <<>>
    /\ lines_with_odds = Raise("not called")
    /\ opportunities = Raise("not called")
    /\ IdleMain

InitEV ==
    /\ line_odds \in OddsDomain
    /\ line_market_odds \in MarketOddsDomain
    /\ IdleEV
    /\ IdleMatch
    /\ IdleConsensus
    /\ IdleNorm
    /\ IdlePipe

\* calculate_ev(line_odds, line_market_odds, bet_amount) in American format
CalculateEv ==
    /\ ev_call = NoCall
    /\ \E bet_amount \in BetAmounts :
          /\ ev_call' = [name |-> "calculate_ev", bet_amount |-> bet_amount]
          /\ ev_ret' = calculate_ev(FromInt(line_odds), FromInt(line_market_odds),
                                    FromInt(bet_amount), "american")
    /\ UNCHANGED <<line_odds, line_market_odds>>
    /\ UNCHANGED <<match_vars, consensus_vars, norm_vars, pipe_vars>>

\* is_positive_ev(line_odds, line_market_odds, min_ev_threshold)
IsPositiveEv ==
    /\ ev_call = NoCall
    /\ \E min_ev_threshold \in Thresholds :
          /\ ev_call' = [name |-> "is_positive_ev",
                         min_ev_threshold |-> min_ev_threshold]
          /\ ev_ret' = is_positive_ev(FromInt(line_odds), FromInt(line_market_odds),
                                      FromInt(min_ev_threshold), "american")
    /\ UNCHANGED <<line_odds, line_market_odds>>
    /\ UNCHANGED <<match_vars, consensus_vars, norm_vars, pipe_vars>>

\* calculate_line_ev(line, line_market_odds) for the Line with odds line_odds
CalculateLineEv ==
    /\ ev_call = NoCall
    /\ \E now \in Clock :
          /\ ev_call' = [name |-> "calculate_line_ev",
                         line_data |-> SampleLine(FromInt(line_odds), now),
                         after |-> CopyThenUpdate(
                                     SampleLine(FromInt(line_odds), now),
                                     calculate_line_ev(SampleLine(FromInt(line_odds), now),
                                                       FromInt(line_market_odds)))]
          /\ ev_ret' = calculate_line_ev(SampleLine(FromInt(line_odds), now),
                                         FromInt(line_market_odds))
    /\ UNCHANGED <<line_odds, line_market_odds>>
    /\ UNCHANGED <<match_vars, consensus_vars, norm_vars, pipe_vars>>

\* calculate_ev(D(line_odds), D(line_market_odds), bet_amount, "decimal"),
\* D being american_to_decimal, which returns for odds that are not zero
CalculateEvDecimal ==
    /\ ev_call = NoCall
    /\ line_odds # 0
    /\ line_market_odds # 0
    /\ \E bet_amount \in BetAmounts :
          /\ ev_call' = [name |-> "calculate_ev in decimal format",
                         sportsbook_odds |-> american_to_decimal(FromInt(line_odds)).val,
                         market_odds |-> american_to_decimal(FromInt(line_market_odds)).val,
                         bet_amount |-> bet_amount]
          /\ ev_ret' = calculate_ev(american_to_decimal(FromInt(line_odds)).val,
                                    american_to_decimal(FromInt(line_market_odds)).val,
                                    FromInt(bet_amount), "decimal")
    /\ UNCHANGED <<line_odds, line_market_odds>>
    /\ UNCHANGED <<match_vars, consensus_vars, norm_vars, pipe_vars>>

\* american_to_decimal(line_odds)
AmericanToDecimal ==
    /\ ev_call = NoCall
    /\ ev_call' = [name |-> "american_to_decimal"]
    /\ ev_ret' = american_to_decimal(FromInt(line_odds))
    /\ UNCHANGED <<line_odds, line_market_odds>>
    /\ UNCHANGED <<match_vars, consensus_vars, norm_vars, pipe_vars>>

NextEV ==
    \/ CalculateEv
    \/ CalculateEvDecimal
    \/ IsPositiveEv
    \/ CalculateLineEv
    \/ AmericanToDecimal

SpecEV == InitEV /\ [][NextEV]_vars

----------------------------------------------------------------------------
(* Claims about the EV engine, checked under SpecEV *)

Called(name) == ev_call.name = name

\* the odds of Scenario 1: the self-test's sportsbook -110 against market +100
Scenario1 == line_odds = TestSportsbookOdds /\ line_market_odds = TestMarketOdds

\* C1 as stated: sportsbook -110 against market +100 at stake 100 gives decimal
\* odds 1.909 and 2.0, win_probability 0.5, ev_dollars 4.55, ev_percentage
\* 4.55, and is_positive_ev(-110, +100) is true.
C1_Scenario1AsStated ==
    Scenario1 =>
      /\ Called("calculate_ev") /\ ev_call.bet_amount = DefaultBet =>
           /\ Returned(ev_ret)
           /\ ev_ret.val.sportsbook_decimal_odds = Rat(1909, 1000)
           /\ ev_ret.val.market_decimal_odds = FromInt(2)
           /\ ev_ret.val.win_probability = Rat(1, 2)
           /\ ev_ret.val.ev_dollars = Rat(455, 100)
           /\ ev_ret.val.ev_percentage = Rat(455, 100)
      /\ Called("is_positive_ev") /\ ev_call.min_ev_threshold = 0 =>
           ev_ret = Return(TRUE)

\* C1 amended: sportsbook -110 against market +100 at stake 100 gives decimal
\* odds 1.909 and 2.0, win_probability 0.5, ev_dollars -4.55, ev_percentage
\* -4.55 (the sportsbook pays less than the fair price), and
\* is_positive_ev(-110, +100) is false.
C1_Scenario1 ==
    Scenario1 =>
      /\ Called("calculate_ev") /\ ev_call.bet_amount = DefaultBet =>
           /\ Returned(ev_ret)
           /\ ev_ret.val.sportsbook_decimal_odds = Rat(1909, 1000)
           /\ ev_ret.val.market_decimal_odds = FromInt(2)
           /\ ev_ret.val.win_probability = Rat(1, 2)
           /\ ev_ret.val.ev_dollars = Rat(-455, 100)
           /\ ev_ret.val.ev_percentage = Rat(-455, 100)
      /\ Called("is_positive_ev") /\ ev_call.min_ev_threshold = 0 =>
           ev_ret = Return(FALSE)

C1_Witness ==
    /\ Scenario1
    /\ Called("calculate_ev")
    /\ ev_call.bet_amount = DefaultBet
    /\ Returned(ev_ret)
    /\ RatLt(ev_ret.val.ev_dollars, Zero)

\* C2: for non-zero American odds and a positive stake, calculate_ev computes
\* win_probability = 1/D_market, breakeven_probability = 1/D_sportsbook,
\* payout_if_win = stake * D_sportsbook, ev_dollars = win_probability *
\* (payout_if_win - stake) - (1 - win_probability) * stake and ev_percentage =
\* 100 * ev_dollars / stake, and returns these values rounded.
C2_EvFormulas ==
    Called("calculate_ev") /\ line_odds # 0 /\ line_market_odds # 0
                           /\ ev_call.bet_amount > 0 =>
      LET stake  == FromInt(ev_call.bet_amount)
          Ds     == american_to_decimal(FromInt(line_odds)).val
          Dm     == american_to_decimal(FromInt(line_market_odds)).val
          wp     == RatDiv(One, Dm)
          be     == RatDiv(One, Ds)
          payout == RatMul(stake, Ds)
          evd    == RatSub(RatMul(wp, RatSub(payout, stake)),
                           RatMul(RatSub(One, wp), stake))
          evp    == RatDiv(RatMul(FromInt(100), evd), stake)
          l      == calculate_ev_locals(FromInt(line_odds), FromInt(line_market_odds),
                                        stake, "american")
      IN  /\ Returned(l)
          /\ l.val.market_probability = wp
          /\ l.val.breakeven_probability = be
          /\ l.val.payout_if_win = payout
          /\ l.val.ev_dollars = evd
          /\ l.val.ev_percentage = evp
          /\ Returned(ev_ret)
          /\ ev_ret.val.win_probability = round(wp, 4)
          /\ ev_ret.val.breakeven_probability = round(be, 4)
          /\ ev_ret.val.payout_if_win = round(payout, 2)
          /\ ev_ret.val.ev_dollars = round(evd, 2)
          /\ ev_ret.val.ev_percentage = round(evp, 2)

C2_Witness ==
    /\ Called("calculate_ev")
    /\ line_odds = TestSportsbookOdds
    /\ line_market_odds = TestLineMarketOdds
    /\ ev_call.bet_amount = MaxBet
    /\ Returned(ev_ret)
    /\ ev_ret.val.win_probability # ev_ret.val.breakeven_probability

\* C3: american_to_decimal(A) returns A/100 + 1 for A > 0 and 100/|A| + 1 for
\* A < 0.
C3_AmericanToDecimal ==
    Called("american_to_decimal") =>
      /\ line_odds > 0 => ev_ret = Return(Rat(line_odds + 100, 100))
      /\ line_odds < 0 => ev_ret = Return(Rat(100 + Abs(line_odds), Abs(line_odds)))

C3_Witness ==
    /\ Called("american_to_decimal")
    /\ line_odds = TestSportsbookOdds
    /\ ev_ret = Return(Rat(21, 11))

\* C4: for every non-zero American odds value the decimal odds that
\* american_to_decimal returns are strictly greater than 1.
C4_DecimalAboveOne ==
    Called("american_to_decimal") /\ line_odds # 0 =>
      Returned(ev_ret) /\ RatGt(ev_ret.val, One)

C4_Witness ==
    /\ Called("american_to_decimal")
    /\ line_odds = 1
    /\ Returned(ev_ret)
    /\ ev_ret.val = Rat(101, 100)

\* C5: when the sportsbook odds or the market odds given to the EV engine in
\* American format are 0, the call raises (ZeroDivisionError) and returns no
\* EV result.
C5_ZeroOddsRaise ==
    /\ line_odds = 0 \/ line_market_odds = 0
    /\ ev_call.name \in {"calculate_ev", "is_positive_ev", "calculate_line_ev"}
    => ev_ret = Raise("ZeroDivisionError")

C5_Witness ==
    /\ line_odds = TestSportsbookOdds
    /\ line_market_odds = 0
    /\ Called("calculate_ev")
    /\ ev_call.bet_amount = DefaultBet
    /\ ~Returned(ev_ret)

\* C6: is_positive_ev(sportsbook_odds, market_odds, threshold) is true exactly
\* when the ev_percentage calculate_ev returns for the same odds is strictly
\* greater than the threshold (false when they are equal), and so is the
\* is_positive_ev flag of calculate_line_ev against 0.
C6_StrictThreshold ==
    LET ev == calculate_ev(FromInt(line_odds), FromInt(line_market_odds),
                           FromInt(DefaultBet), "american")
    IN  Returned(ev) =>
          /\ Called("is_positive_ev") =>
               /\ Returned(ev_ret)
               /\ ev_ret.val <=> RatGt(ev.val.ev_percentage,
                                       FromInt(ev_call.min_ev_threshold))
               /\ ev.val.ev_percentage = FromInt(ev_call.min_ev_threshold)
                    => ev_ret.val = FALSE
          /\ Called("calculate_line_ev") =>
               /\ Returned(ev_ret)
               /\ ev_ret.val.is_positive_ev <=> RatGt(ev.val.ev_percentage, Zero)

\* is_positive_ev was asked with a threshold the ev_percentage equals
C6_Witness ==
    /\ Called("is_positive_ev")
    /\ line_odds = TestMarketOdds
    /\ line_market_odds = -TestMarketOdds
    /\ ev_call.min_ev_threshold = 0
    /\ calculate_ev(FromInt(line_odds), FromInt(line_market_odds),
                    FromInt(DefaultBet), "american").val.ev_percentage = Zero
    /\ ev_ret = Return(FALSE)

\* C7: for every non-zero American odds value A, calculate_ev(A, A) returns
\* ev_percentage 0, is_positive_ev(A, A) is false and the is_positive_ev flag
\* of calculate_line_ev is false.
C7_EqualOddsZeroEv ==
    line_odds # 0 /\ line_market_odds = line_odds =>
      /\ Called("calculate_ev") /\ ev_call.bet_amount > 0 =>
           Returned(ev_ret) /\ ev_ret.val.ev_percentage = Zero
      /\ Called("is_positive_ev") /\ ev_call.min_ev_threshold = 0 =>
           ev_ret = Return(FALSE)
      /\ Called("calculate_line_ev") =>
           Returned(ev_ret) /\ ev_ret.val.is_positive_ev = FALSE

C7_Witness ==
    /\ line_odds = TestSportsbookOdds
    /\ line_market_odds = TestSportsbookOdds
    /\ Called("calculate_line_ev")
    /\ Returned(ev_ret)
    /\ ev_ret.val.ev_percentage = Zero
    /\ ev_ret.val.is_positive_ev = FALSE

\* the ev_percentage calculate_ev returns for sportsbook odds a against the
\* market odds of the state, at the default stake
EvPercentage(a) ==
    calculate_ev(FromInt(a), FromInt(line_market_odds),
                 FromInt(DefaultBet), "american").val.ev_percentage

\* the same before rounding
EvPercentageExact(a) ==
    calculate_ev_locals(FromInt(a), FromInt(line_market_odds),
                        FromInt(DefaultBet), "american").val.ev_percentage

DefaultCalculateEv ==
    /\ Called("calculate_ev")
    /\ ev_call.bet_amount = DefaultBet
    /\ line_odds # 0
    /\ line_market_odds # 0

\* C8 as stated: for fixed non-zero market odds and non-zero sportsbook odds
\* A1 < A2, the ev_percentage calculate_ev returns for A2 is strictly greater
\* than the one it returns for A1.
C8_MonotoneAsStated ==
    DefaultCalculateEv =>
      \A a1 \in OddsDomain \ {0} :
        a1 < line_odds => RatLt(EvPercentage(a1), ev_ret.val.ev_percentage)

\* C8 amended: for fixed non-zero market odds, sportsbook odds A1 < A2 of the
\* same sign have decimal odds D(A1) < D(A2), and whenever D(A1) < D(A2) the
\* ev_percentage of A2 is strictly greater than that of A1 before rounding and
\* greater than or equal to it as returned (rounded to 2 decimals).
C8_Monotone ==
    DefaultCalculateEv =>
      LET D2     == american_to_decimal(FromInt(line_odds)).val
          exact2 == EvPercentageExact(line_odds)
      IN  \A a1 \in OddsDomain \ {0} :
            LET D1 == american_to_decimal(FromInt(a1)).val
            IN  /\ a1 < line_odds /\ (a1 < 0) = (line_odds < 0) => RatLt(D1, D2)
                /\ RatLt(D1, D2) =>
                     /\ RatLt(EvPercentageExact(a1), exact2)
                     /\ RatLe(EvPercentage(a1), ev_ret.val.ev_percentage)

\* two sportsbook odds of the same sign whose ev_percentage rounds to the same
\* value: +2 and +3 against the long shot
C8_Witness ==
    /\ DefaultCalculateEv
    /\ line_market_odds = LongShot
    /\ line_odds = 3
    /\ RatLt(EvPercentageExact(2), EvPercentageExact(3))
    /\ EvPercentage(2) = ev_ret.val.ev_percentage

\* decimal odds back to American odds, of the sign given
decimal_to_american(decimal_odds, negative) ==
    IF negative
    THEN RatDiv(FromInt(-100), RatSub(decimal_odds, One))
    ELSE RatMul(RatSub(decimal_odds, One), FromInt(100))

\* C9: for every non-zero American odds value A, converting the decimal odds
\* american_to_decimal(A) back to American odds of A's sign gives A, and no
\* other odds of the same sign have the same decimal odds.
C9_RoundTrip ==
    Called("american_to_decimal") /\ line_odds # 0 =>
      /\ Returned(ev_ret)
      /\ ev_ret.val # One
      /\ decimal_to_american(ev_ret.val, line_odds < 0) = FromInt(line_odds)
      /\ \A b \in OddsDomain \ {0, line_odds} :
           (b < 0) = (line_odds < 0) => american_to_decimal(FromInt(b)) # ev_ret

C9_Witness ==
    /\ Called("american_to_decimal")
    /\ line_odds = -TestMarketOdds
    /\ ev_ret = Return(FromInt(2))
    /\ american_to_decimal(FromInt(TestMarketOdds)) = ev_ret

----------------------------------------------------------------------------
(* The inputs of the matcher *)

STR_Curry == <<"C", "u", "r", "r", "y">>

STR_LEBRON_JAMES_Over == <<"L", "E", "B", "R", "O", "N", " ", "J", "A", "M", "E", "S", " ", "O", "v", "e", "r">>

STR_Stephen_Curry_Over == <<"S", "t", "e", "p", "h", "e", "n", " ", "C", "u", "r", "r", "y", " ", "O", "v", "e", "r">>

STR_Points == <<"P", "o", "i", "n", "t", "s">>

STR_steals == <<"s", "t", "e", "a", "l", "s">>

\* point=25.5 of the self-test of odds_api.py, and a threshold 0.5 above it
TestPoint == Rat(51, 2)

OtherPoint == FromInt(26)

\* an outcome with the keys that are given (each argument an Optional)
Outcome(description, point, price) ==
    [k \in {x \in {"description", "point", "price"} :
              \/ x = "description" /\ description # <<>>
              \/ x = "point" /\ point # <<>>
              \/ x = "price" /\ price # <<>>}
       |-> IF k = "description" THEN description[1]
           ELSE IF k = "point" THEN point[1] ELSE price[1]]

\* The outcomes the responses are made of: the two players at the Line's
\* threshold and 0.5 above it, and outcomes with a key missing.
Outcomes ==
    {Outcome(<<STR_LEBRON_JAMES_Over>>, <<TestPoint>>, <<-TestLineMarketOdds>>),
     Outcome(<<STR_LEBRON_JAMES_Over>>, <<TestPoint>>, <<TestSportsbookOdds>>),
     Outcome(<<STR_LEBRON_JAMES_Over>>, <<OtherPoint>>, <<TestMarketOdds>>),
     Outcome(<<STR_Stephen_Curry_Over>>, <<TestPoint>>, <<TestMarketOdds>>),
     Outcome(<<STR_Stephen_Curry_Over>>, <<OtherPoint>>, <<-TestLineMarketOdds>>),
     Outcome(<<STR_LEBRON_JAMES_Over>>, <<TestPoint>>, <<>>),
     Outcome(<<STR_LEBRON_JAMES_Over>>, <<>>, <<TestLineMarketOdds>>),
     Outcome(<<>>, <<TestPoint>>, <<TestLineMarketOdds>>)}

RECURSIVE SeqsUpTo(_, _)
SeqsUpTo(S, n) ==
    IF n = 0 THEN {<<>>}
    ELSE LET shorter == SeqsUpTo(S, n - 1)
         IN  shorter \cup {Append(s, x) : s \in shorter, x \in S}

Market(key, outcomes) == [key |-> key, outcomes |-> outcomes]

Bookmaker(markets) == [key |-> "draftkings", markets |-> markets]

Game(bookmakers) ==
    [away_team |-> "Warriors", home_team |-> "Lakers",
     commence_time |-> "2024-01-15T20:00:00Z", bookmakers |-> bookmakers]

\* the first outcome of a list, and the others
FirstOf(outs) == IF outs = <<>> THEN <<>> ELSE <<Head(outs)>>

RestOf(outs) == IF outs = <<>> THEN <<>> ELSE Tail(outs)

\* The responses: the outcomes in one market, in a market of another key, or
\* one outcome to each market, each bookmaker or each game; the first outcome
\* in a market of another key and the others in the market asked for; a
\* market with no key before the market asked for; and a game with no
\* bookmakers key.
Feeds(outs) ==
    {  <<Game(<<Bookmaker(<<Market(STR_player_points, outs)>>)>>)>>,
       <<Game(<<Bookmaker(<<Market(STR_player_rebounds, outs),
                            Market(STR_player_points, outs)>>)>>)>>,
       <<Game(<<Bookmaker([i \in 1 .. Len(outs) |->
                             Market(STR_player_points, <<outs[i]>>)])>>)>>,
       <<Game([i \in 1 .. Len(outs) |->
                 Bookmaker(<<Market(STR_player_points, <<outs[i]>>)>>)])>>,
       [i \in 1 .. Len(outs) |->
          Game(<<Bookmaker(<<Market(STR_player_points, <<outs[i]>>)>>)>>)],
       <<Game(<<Bookmaker(<<Market(STR_player_rebounds, FirstOf(outs)),
                            Market(STR_player_points, RestOf(outs))>>)>>)>>,
       <<Game(<<Bookmaker(<<Market(STR_player_points, FirstOf(outs)),
                            [outcomes |-> RestOf(outs)],
                            Market(STR_player_points, RestOf(outs))>>)>>)>>,
       <<[home_team |-> "Lakers"]>>  }

InitMatch ==
    /\ odds_data \in UNION {Feeds(outs) : outs \in SeqsUpTo(Outcomes, MaxOutcomes)}
    /\ player_name \in {STR_LeBron_James, STR_Curry}
    /\ market_type \in {STR_Points, STR_steals}
    /\ line_value = TestPoint
    /\ match_ret = Raise("not called")
    /\ IdleConsensus
    /\ sportsbook = STR_PrizePicks
    /\ sport = STR_basketball_nba
    /\ parse_ret = Raise("not called")
    /\ line_odds = TestSportsbookOdds
    /\ line_market_odds = TestMarketOdds
    /\ IdleEV
    /\ IdlePipe

\* nothing has been called on the response yet
NothingCalled ==
    /\ match_ret = Raise("not called")
    /\ consensus_ret = Raise("not called")
    /\ parse_ret = Raise("not called")

\* get_market_odds_for_player(api_client, sport, player_name, market_type,
\* line_value), the client answering odds_data
GetMarketOddsForPlayer ==
    /\ match_ret = Raise("not called")
    /\ consensus_ret = Raise("not called")
    /\ match_ret' = get_market_odds_for_player(odds_data, player_name,
                                               market_type, line_value)
    /\ UNCHANGED <<odds_data, player_name, market_type, line_value>>
    /\ UNCHANGED <<ev_vars, consensus_vars, norm_vars, pipe_vars>>

\* the market keys find_market_consensus is asked for
TargetMarkets == {STR_player_points, STR_player_rebounds}

\* find_market_consensus(odds_data, target_market)
FindMarketConsensus ==
    /\ NothingCalled
    /\ \E target \in TargetMarkets :
          /\ target_market' = target
          /\ consensus_ret' = find_market_consensus(odds_data, target)
    /\ UNCHANGED <<ev_vars, match_vars, norm_vars, pipe_vars>>

\* scraper._parse_odds_to_lines(odds_data, sport), of the scraper of sportsbook
ParseOddsToLines ==
    /\ parse_ret = Raise("not called")
    /\ consensus_ret = Raise("not called")
    /\ \E now \in Clock :
          parse_ret' = parse_odds_to_lines(odds_data, sport, sportsbook, now)
    /\ UNCHANGED <<sportsbook, sport>>
    /\ UNCHANGED <<ev_vars, match_vars, consensus_vars, pipe_vars>>

NextMatch == GetMarketOddsForPlayer \/ FindMarketConsensus \/ ParseOddsToLines

SpecMatch == InitMatch /\ [][NextMatch]_vars

----------------------------------------------------------------------------
(* The inputs of the Line Normalizer *)

STR_Stephen_Curry == <<"S", "t", "e", "p", "h", "e", "n", " ", "C", "u", "r", "r", "y">>

STR_Mathias_Lessort == <<"M", "a", "t", "h", "i", "a", "s", " ", "L", "e", "s", "s", "o", "r", "t">>

STR_LeBron_James_Under_7_5_Assists == <<"L", "e", "B", "r", "o", "n", " ", "J", "a", "m", "e", "s", " ", "U", "n", "d", "e", "r", " ", "7", ".", "5", " ", "A", "s", "s", "i", "s", "t", "s">>

STR_LeBron_James_Over_25_5_Points == <<"L", "e", "B", "r", "o", "n", " ", "J", "a", "m", "e", "s", " ", "O", "v", "e", "r", " ", "2", "5", ".", "5", " ", "P", "o", "i", "n", "t", "s">>

STR_Mathias_Lessort_Over_7_5_Assists == <<"M", "a", "t", "h", "i", "a", "s", " ", "L", "e", "s", "s", "o", "r", "t", " ", "O", "v", "e", "r", " ", "7", ".", "5", " ", "A", "s", "s", "i", "s", "t", "s">>

STR_More == <<"M", "o", "r", "e">>

STR_LESS == <<"L", "E", "S", "S">>

STR_player_points_alternate == <<"p", "l", "a", "y", "e", "r", "_", "p", "o", "i", "n", "t", "s", "_", "a", "l", "t", "e", "r", "n", "a", "t", "e">>

STR_team_player_points_alternate_q1 == <<"t", "e", "a", "m", "_", "p", "l", "a", "y", "e", "r", "_", "p", "o", "i", "n", "t", "s", "_", "a", "l", "t", "e", "r", "n", "a", "t", "e", "_", "q", "1">>

STR_h2h == <<"h", "2", "h">>

STR_soccer_epl == <<"s", "o", "c", "c", "e", "r", "_", "e", "p", "l">>

\* point=7.5 of Scenario 5, and a threshold that is a whole number
AssistsPoint == Rat(15, 2)

WholePoint == FromInt(25)

\* an outcome of a DFS market with the keys that are given (each argument an
\* Optional)
DfsOutcome(name, description, point, price) ==
    [k \in {x \in {"name", "description", "point", "price"} :
              \/ x = "name" /\ name # <<>>
              \/ x = "description" /\ description # <<>>
              \/ x = "point" /\ point # <<>>
              \/ x = "price" /\ price # <<>>}
       |-> IF k = "name" THEN name[1]
           ELSE IF k = "description" THEN description[1]
           ELSE IF k = "point" THEN point[1] ELSE price[1]]

\* The outcomes the DFS responses are made of: an under and an over bet, one
\* with no description and no price, a bet told by "More" whose price is not
\* a number, a player whose name holds "less", outcomes with no name, an
\* empty name or no point, and one whose point is not a number.
DfsOutcomes ==
    {DfsOutcome(<<STR_LeBron_James>>, <<STR_LeBron_James_Under_7_5_Assists>>,
                <<AssistsPoint>>, <<FromInt(TestSportsbookOdds)>>),
     DfsOutcome(<<STR_LeBron_James>>, <<STR_LeBron_James_Over_25_5_Points>>,
                <<TestPoint>>, <<FromInt(TestMarketOdds)>>),
     DfsOutcome(<<STR_LeBron_James>>, <<>>, <<TestPoint>>, <<>>),
     DfsOutcome(<<STR_Stephen_Curry>>, <<STR_More>>, <<WholePoint>>, <<STR_abc>>),
     DfsOutcome(<<STR_Mathias_Lessort>>, <<STR_Mathias_Lessort_Over_7_5_Assists>>,
                <<AssistsPoint>>, <<FromInt(TestSportsbookOdds)>>),
     DfsOutcome(<<<<>>>>, <<STR_LESS>>, <<TestPoint>>, <<FromInt(TestSportsbookOdds)>>),
     DfsOutcome(<<>>, <<STR_LeBron_James_Over_25_5_Points>>,
                <<TestPoint>>, <<FromInt(TestMarketOdds)>>),
     DfsOutcome(<<STR_LeBron_James>>, <<STR_LeBron_James_Over_25_5_Points>>,
                <<>>, <<FromInt(TestMarketOdds)>>),
     DfsOutcome(<<STR_LeBron_James>>, <<STR_LeBron_James_Over_25_5_Points>>,
                <<STR_abc>>, <<FromInt(TestMarketOdds)>>)}

BookmakerOf(key, markets) == [key |-> key, markets |-> markets]

\* The DFS responses: the outcomes in one market of PrizePicks or of
\* Underdog; behind another bookmaker and a market that is no player market;
\* one outcome to each game; and a game with no commence_time.
DfsFeeds(outs, key) ==
    {  <<Game(<<BookmakerOf("prizepicks", <<Market(key, outs)>>)>>)>>,
       <<Game(<<BookmakerOf("underdog", <<Market(key, outs)>>)>>)>>,
       <<Game(<<Bookmaker(<<Market(key, outs)>>),
                BookmakerOf("prizepicks", <<Market(STR_h2h, outs),
                                            Market(key, outs)>>)>>)>>,
       [i \in 1 .. Len(outs) |->
          Game(<<BookmakerOf("prizepicks", <<Market(key, <<outs[i]>>)>>)>>)],
       <<[away_team |-> "Warriors", home_team |-> "Lakers",
          bookmakers |-> <<BookmakerOf("prizepicks", <<Market(key, outs)>>)>>]>>  }

\* the scrapers, the sport each is asked for (one the table of
\* _convert_sport_key knows, one it does not) and the key of the player
\* market of the response
Scrapers ==
    {<<STR_PrizePicks, STR_basketball_nba, STR_player_points_alternate>>,
     <<STR_PrizePicks, STR_basketball_nba, STR_team_player_points_alternate_q1>>,
     <<STR_Underdog, STR_soccer_epl, STR_player_assists>>}

InitNorm ==
    /\ \E scraper \in Scrapers :
          /\ sportsbook = scraper[1]
          /\ sport = scraper[2]
          /\ odds_data \in UNION {DfsFeeds(outs, scraper[3]) :
                                    outs \in SeqsUpTo(DfsOutcomes, MaxOutcomes)}
    /\ parse_ret = Raise("not called")
    /\ player_name = STR_LeBron_James
    /\ market_type = STR_points
    /\ line_value = TestPoint
    /\ match_ret = Raise("not called")
    /\ line_odds = TestSportsbookOdds
    /\ line_market_odds = TestMarketOdds
    /\ IdleEV
    /\ IdleConsensus
    /\ IdlePipe

NextNorm == ParseOddsToLines

SpecNorm == InitNorm /\ [][NextNorm]_vars

----------------------------------------------------------------------------
(* The inputs of the scheduler *)

\* The outcomes the scraped Lines come from: those of the DFS responses whose
\* point is a number
PipeOutcomes == {o \in DfsOutcomes : "point" \notin DOMAIN o \/ IsNumber(o.point)}

\* The lists of Lines the PrizePicks scraper hands to the scheduler: the
\* Lines of one market of up to MaxOutcomes outcomes, and a list longer than
\* the scheduler's limit
ScrapedLines ==
    {parse_odds_to_lines(
        <<Game(<<BookmakerOf("prizepicks", <<Market(STR_player_points_alternate, outs)>>)>>)>>,
        STR_basketball_nba, STR_PrizePicks,
        Datetime("2024-01-15T12:00:00")).val : outs \in SeqsUpTo(PipeOutcomes, MaxOutcomes)}
      \cup {[i \in 1 .. ApiCreditLimit + 1 |->
               SampleLine(FromInt(TestSportsbookOdds), Datetime("2024-01-15T12:00:00"))]}

\* What the provider holds while the scheduler runs: Curry and LeBron James
\* over 25.5 points, in the shapes of the matcher's responses
PipeFeeds ==
    Feeds(<<Outcome(<<STR_Stephen_Curry_Over>>, <<TestPoint>>, <<TestMarketOdds>>),
            Outcome(<<STR_LEBRON_JAMES_Over>>, <<TestPoint>>, <<-TestLineMarketOdds>>)>>)

InitPipe ==
    /\ lines \in ScrapedLines
    /\ lines_with_odds = Raise("not called")
    /\ opportunities = Raise("not called")
    /\ IdleMain
    /\ odds_data \in PipeFeeds
    /\ player_name = <<>>
    /\ market_type = <<>>
    /\ line_value = Zero
    /\ match_ret = Raise("not called")
    /\ line_odds = TestSportsbookOdds
    /\ line_market_odds = TestMarketOdds
    /\ IdleEV
    /\ IdleConsensus
    /\ IdleNorm

\* A Line that obtained market odds: the sample Line with odds o, and m stored
\* under market_odds
LineWithOdds(o, m) ==
    DictUpdate(SampleLine(FromInt(o), Datetime("2024-01-15T12:00:00")),
               [market_odds |-> FromInt(m)])

\* The lists calculate_ev_for_lines is handed: up to MaxOutcomes Lines, of
\* odds better than, worse than and far worse than their market odds
LinesWithOdds ==
    SeqsUpTo({LineWithOdds(TestLineMarketOdds, TestMarketOdds),
              LineWithOdds(TestSportsbookOdds, TestMarketOdds),
              LineWithOdds(TestSportsbookOdds, TestLineMarketOdds)}, MaxOutcomes)

\* get_market_odds_for_lines(lines)
GetMarketOddsForLines ==
    /\ lines_with_odds = Raise("not called")
    /\ lines_with_odds' = Return(get_market_odds_for_lines(lines))
    /\ UNCHANGED <<lines, opportunities, main_vars>>
    /\ UNCHANGED <<ev_vars, match_vars, consensus_vars, norm_vars>>

\* test_complete_pipeline_v2.py, "Demonstrating EV calculation with sample
\* data": calculate_ev(sample_line, sample_market_odds) inside a try
DemonstrateEv ==
    /\ ev_call = NoCall
    /\ ev_call' = [name |-> "calculate_ev", sportsbook_odds |-> sample_line,
                   market_odds |-> sample_market_odds]
    /\ ev_ret' = calculate_ev_of_record(sample_line, sample_market_odds)
    /\ UNCHANGED <<line_odds, line_market_odds>>
    /\ UNCHANGED <<match_vars, consensus_vars, norm_vars, pipe_vars>>

\* calculate_ev_for_lines(lines_with_odds), of a list of Lines with market odds
CalculateEvForLines ==
    /\ ev_call = NoCall
    /\ \E list \in LinesWithOdds :
          /\ ev_call' = [name |-> "calculate_ev_for_lines", lines_with_odds |-> list]
          /\ opportunities' = Return(calculate_ev_for_lines(list))
    /\ UNCHANGED <<line_odds, line_market_odds, ev_ret>>
    /\ UNCHANGED <<lines, lines_with_odds, main_vars>>
    /\ UNCHANGED <<match_vars, consensus_vars, norm_vars>>

NextPipe ==
    \/ GetMarketOddsForLines
    \/ DemonstrateEv
    \/ CalculateEvForLines

SpecPipe == InitPipe /\ [][NextPipe]_vars

----------------------------------------------------------------------------
(* main of the scheduler as a state machine: one run, step by step *)

\* A Line of a platform, as its scraper builds it with create_line_schema
PlatformLine(book, name) ==
    create_line_schema(book, STR_NBA, STR_NBA, STR_Lakers_vs_Warriors, name,
                       STR_points, Rat(51, 2), FromInt(TestSportsbookOdds), STR_over,
                       Datetime("2024-01-15T20:00:00"), <<>>,
                       Datetime("2024-01-15T12:00:00"))

\* What scraper_func() can answer for a platform: no Line, one Line, two
\* Lines, or an exception
ScraperAnswers(book) ==
    {Return(<<>>),
     Return(<<PlatformLine(book, STR_LeBron_James)>>),
     Return(<<PlatformLine(book, STR_Stephen_Curry), PlatformLine(book, STR_LeBron_James)>>),
     Raise("Exception")}

\* scrape_fliff(), of scrapers/fliff.py: a list of Fliff Lines or an exception
scrape_fliff == ScraperAnswers(STR_Fliff)

\* What the three scrapers answer in one run, in platform order
ScraperRets ==
    {<<p, u, f>> : p \in ScraperAnswers(STR_PrizePicks),
                   u \in ScraperAnswers(STR_Underdog),
                   f \in scrape_fliff}

InitMain ==
    /\ scraper_rets \in ScraperRets
    /\ steps = <<>>
    /\ cache = <<>>
    /\ pc = "scrape"
    /\ lines = <<>>
    /\ lines_with_odds = Raise("not called")
    /\ opportunities = Raise("not called")
    /\ line_odds = TestSportsbookOdds
    /\ line_market_odds = TestMarketOdds
    /\ IdleEV
    /\ IdleMatch
    /\ IdleConsensus
    /\ IdleNorm

\* main, step 1: all_lines = run_all_scrapers()
RunAllScrapers ==
    /\ pc = "scrape"
    /\ lines' = run_all_scrapers(scraper_rets)
    /\ steps' = Append(steps, "scrape")
    /\ pc' = "select"
    /\ UNCHANGED <<lines_with_odds, opportunities, scraper_rets, cache>>
    /\ UNCHANGED <<ev_vars, match_vars, consensus_vars, norm_vars>>

\* main, steps 2 and 3: get_market_odds_for_lines when a Line was scraped,
\* calculate_ev_for_lines when a Line obtained market odds, and the sample
\* opportunities otherwise
MatchAndCompute ==
    /\ pc = "select"
    /\ lines_with_odds' = IF lines = <<>> THEN lines_with_odds
                          ELSE Return(get_market_odds_for_lines(lines))
    /\ \E now \in Clock :
          opportunities' = Return(SelectOpportunities(lines, get_market_odds_for_lines(lines), now))
    /\ steps' = steps \o StepsAfterScrape(lines, get_market_odds_for_lines(lines))
    /\ pc' = "persist"
    /\ UNCHANGED <<lines, scraper_rets, cache>>
    /\ UNCHANGED <<ev_vars, match_vars, consensus_vars, norm_vars>>

\* main, step 4: save_opportunities_to_cache(opportunities); writing
\* data/lines_cache.json succeeds or raises, and when it raises main goes to
\* its except clause
SaveOpportunitiesToCache ==
    /\ pc = "persist"
    /\ steps' = Append(steps, "persist")
    /\ \E written \in BOOLEAN, now \in Clock :
          IF written
          THEN cache' = <<cache_data(opportunities.val, now)>> /\ pc' = "done"
          ELSE cache' = cache /\ pc' = "except"
    /\ UNCHANGED <<lines, lines_with_odds, opportunities, scraper_rets>>
    /\ UNCHANGED <<ev_vars, match_vars, consensus_vars, norm_vars>>

\* main, "except Exception": the sample opportunities are saved; when writing
\* raises again, the exception leaves main
SaveSampleOpportunities ==
    /\ pc = "except"
    /\ steps' = Append(steps, "persist")
    /\ \E written \in BOOLEAN, now \in Clock :
          /\ opportunities' = Return(create_sample_opportunities(now))
          /\ IF written
             THEN cache' = <<cache_data(create_sample_opportunities(now), now)>> /\ pc' = "done"
             ELSE cache' = cache /\ pc' = "raised"
    /\ UNCHANGED <<lines, lines_with_odds, scraper_rets>>
    /\ UNCHANGED <<ev_vars, match_vars, consensus_vars, norm_vars>>

NextMain ==
    \/ RunAllScrapers
    \/ MatchAndCompute
    \/ SaveOpportunitiesToCache
    \/ SaveSampleOpportunities

SpecMain == InitMain /\ [][NextMain]_vars

----------------------------------------------------------------------------
(* The loop of test_phase4.py as a state machine: one Line per step *)

\* A PrizePicks Line of market type mtype
MockLine(mtype) ==
    create_line_schema(STR_PrizePicks, STR_NBA, STR_NBA, STR_Lakers_vs_Warriors,
                       STR_LeBron_James, mtype, Rat(51, 2), FromInt(TestSportsbookOdds),
                       STR_over, Datetime("2024-01-15T20:00:00"), <<>>,
                       Datetime("2024-01-15T12:00:00"))

\* The lists of Lines the loop is given: one or two Lines, of the market
\* types get_mock_market_odds has a range for and of one it has none for
MockLines ==
    SeqsUpTo({MockLine(STR_points), MockLine(STR_rebounds), MockLine(STR_assists),
              MockLine(STR_touchdowns), MockLine(STR_steals)}, 2) \ {<<>>}

InitMock ==
    /\ lines \in MockLines
    /\ lines_with_odds = Return(<<>>)
    /\ opportunities = Raise("not called")
    /\ IdleMain
    /\ line_odds = TestSportsbookOdds
    /\ line_market_odds = TestMarketOdds
    /\ IdleEV
    /\ IdleMatch
    /\ IdleConsensus
    /\ IdleNorm

\* test_phase4.py, one turn of the loop: market_odds = get_mock_market_odds(...)
\* of the next Line, then enhanced_lines.append(calculate_line_ev(line, market_odds))
EnhanceNextLine ==
    /\ Returned(lines_with_odds)
    /\ Len(lines_with_odds.val) < Len(lines)
    /\ \E market_odds \in get_mock_market_odds(lines[Len(lines_with_odds.val) + 1].sport,
                                                lines[Len(lines_with_odds.val) + 1].player_name,
                                                lines[Len(lines_with_odds.val) + 1].market_type,
                                                lines[Len(lines_with_odds.val) + 1].line_value) :
          /\ ev_call' = [name |-> "get_mock_market_odds",
                         market_type |-> lines[Len(lines_with_odds.val) + 1].market_type,
                         ret |-> market_odds]
          /\ lines_with_odds' = EnhanceLine(lines_with_odds.val,
                                            lines[Len(lines_with_odds.val) + 1], market_odds)
          /\ ev_ret' = lines_with_odds'
    /\ UNCHANGED <<line_odds, line_market_odds>>
    /\ UNCHANGED <<lines, opportunities, main_vars>>
    /\ UNCHANGED <<match_vars, consensus_vars, norm_vars>>

NextMock == EnhanceNextLine

SpecMock == InitMock /\ [][NextMock]_vars

----------------------------------------------------------------------------
(* Claims about the market matcher, checked under SpecMatch *)

\* every outcome of every market of every bookmaker of every game of the response
AllOutcomes(games) ==
    {o \in Outcomes :
       \E g \in 1 .. Len(games) :
         /\ "bookmakers" \in DOMAIN games[g]
         /\ \E b \in 1 .. Len(games[g].bookmakers) :
              \E m \in 1 .. Len(games[g].bookmakers[b].markets) :
                \E i \in 1 .. Len(games[g].bookmakers[b].markets[m].outcomes) :
                  games[g].bookmakers[b].markets[m].outcomes[i] = o}

\* the outcome names the player (case-insensitively) at exactly the threshold
Eligible(o) ==
    /\ "description" \in DOMAIN o
    /\ StrIn(lower(player_name), lower(o.description))
    /\ "point" \in DOMAIN o
    /\ o.point = line_value

\* C10: a price the matcher returns is the price of an outcome whose
\* description contains the Line's player_name case-insensitively and whose
\* point equals the Line's line_value; an outcome with another point or
\* another player is never selected.
C10_MatcherExact ==
    Returned(match_ret) /\ match_ret.val # <<>> =>
      \E o \in AllOutcomes(odds_data) :
        /\ Eligible(o)
        /\ "price" \in DOMAIN o
        /\ o.price = match_ret.val[1]

\* Scenario 3: another player at 25.5 comes first, LeBron James at 25.5 with
\* price -120 second, and -120 is returned
C10_Witness ==
    /\ odds_data = <<Game(<<Bookmaker(<<Market(STR_player_points,
          <<Outcome(<<STR_Stephen_Curry_Over>>, <<TestPoint>>, <<TestMarketOdds>>),
            Outcome(<<STR_LEBRON_JAMES_Over>>, <<TestPoint>>,
                    <<-TestLineMarketOdds>>)>>)>>)>>)>>
    /\ player_name = STR_LeBron_James
    /\ line_value = TestPoint
    /\ match_ret = Return(<<-TestLineMarketOdds>>)

\* the concatenation of a sequence of sequences
RECURSIVE Concat(_)
Concat(ss) == IF ss = <<>> THEN <<>> ELSE Head(ss) \o Concat(Tail(ss))

\* the markets of the response in the order games, bookmakers, markets
MarketsInOrder(games) ==
    Concat([g \in 1 .. Len(games) |->
              IF "bookmakers" \in DOMAIN games[g]
              THEN Concat([b \in 1 .. Len(games[g].bookmakers) |->
                             games[g].bookmakers[b].markets])
              ELSE <<>>])

\* the outcomes of the response in the order games, bookmakers, markets, outcomes
OutcomesInOrder(games) ==
    Concat([m \in 1 .. Len(MarketsInOrder(games)) |->
              MarketsInOrder(games)[m].outcomes])

\* the same, of the markets of the key given only
OutcomesOfKeyInOrder(games, key) ==
    Concat([m \in 1 .. Len(MarketsInOrder(games)) |->
              IF /\ "key" \in DOMAIN MarketsInOrder(games)[m]
                 /\ MarketsInOrder(games)[m].key = key
              THEN MarketsInOrder(games)[m].outcomes
              ELSE <<>>])

\* i is the position of the first eligible outcome of the sequence
FirstEligible(outs, i) ==
    /\ i \in 1 .. Len(outs)
    /\ Eligible(outs[i])
    /\ \A j \in 1 .. (i - 1) : ~Eligible(outs[j])

MatcherCalled == match_ret # Raise("not called")

\* the Line's market type is one of the four the matcher maps to a market key
SupportedType == market_mapping(lower(market_type)) # <<>>

\* the response is as the provider documents it: every market carries a key
\* and every outcome a price
AllKeyed == \A m \in 1 .. Len(MarketsInOrder(odds_data)) :
               "key" \in DOMAIN MarketsInOrder(odds_data)[m]

AllPriced == \A i \in 1 .. Len(OutcomesInOrder(odds_data)) :
                "price" \in DOMAIN OutcomesInOrder(odds_data)[i]

\* C11 as stated: given a Line and a collection of market outcomes (each with
\* a price, in markets with a key), the matcher returns a price whenever at
\* least one outcome of the collection is eligible (player-name substring and
\* equal threshold), and returns no match only when there is none.
C11_MatchIffEligibleAsStated ==
    MatcherCalled /\ AllKeyed /\ AllPriced =>
      /\ Returned(match_ret)
      /\ match_ret.val # <<>> <=>
           \E i \in 1 .. Len(OutcomesInOrder(odds_data)) :
              Eligible(OutcomesInOrder(odds_data)[i])

\* C11 amended: for a Line whose market_type is not one of points, rebounds,
\* assists, touchdowns (case-insensitively) the matcher returns no match; for
\* one that is, and a collection whose markets all carry a key and whose
\* eligible outcomes carry a price, it returns a price exactly when at least
\* one outcome of a market whose key is the one mapped from the market_type
\* ("player_" + type) is eligible.
C11_MatchIffEligible ==
    MatcherCalled =>
      /\ ~SupportedType => match_ret = Return(<<>>)
      /\ SupportedType =>
           LET scanned == OutcomesOfKeyInOrder(odds_data,
                              market_mapping(lower(market_type))[1])
           IN  /\ AllKeyed
               /\ \A i \in 1 .. Len(scanned) :
                     Eligible(scanned[i]) => "price" \in DOMAIN scanned[i]
               => /\ Returned(match_ret)
                  /\ match_ret.val # <<>> <=>
                       \E i \in 1 .. Len(scanned) : Eligible(scanned[i])

\* the only eligible outcome sits in a market of another key than the one
\* asked for, and no match is returned
C11_Witness ==
    /\ MatcherCalled
    /\ SupportedType
    /\ AllKeyed
    /\ AllPriced
    /\ \E i \in 1 .. Len(OutcomesInOrder(odds_data)) :
          Eligible(OutcomesInOrder(odds_data)[i])
    /\ \A i \in 1 .. Len(OutcomesOfKeyInOrder(odds_data, STR_player_points)) :
          ~Eligible(OutcomesOfKeyInOrder(odds_data, STR_player_points)[i])
    /\ match_ret = Return(<<>>)

ParseCalled == parse_ret # Raise("not called")

\* C13: when no outcome of the fetched collection is eligible, and so when the
\* collection is empty, the matcher returns None and does not raise; and the
\* normalizer given an empty games collection returns an empty list of Lines
\* and does not raise.
C13_AbsentNotError ==
    /\ MatcherCalled
         /\ (\A i \in 1 .. Len(OutcomesInOrder(odds_data)) :
               ~Eligible(OutcomesInOrder(odds_data)[i]))
         => match_ret = Return(<<>>)
    /\ MatcherCalled /\ odds_data = <<>> => match_ret = Return(<<>>)
    /\ ParseCalled /\ odds_data = <<>> => parse_ret = Return(<<>>)

\* both were handed the empty collection
C13_Witness ==
    /\ odds_data = <<>>
    /\ SupportedType
    /\ match_ret = Return(<<>>)
    /\ parse_ret = Return(<<>>)

ConsensusCalled == consensus_ret # Raise("not called")

\* the sum of the prices of the first n outcomes of a sequence
RECURSIVE PriceTotal(_, _)
PriceTotal(outs, n) ==
    IF n = 0 THEN 0 ELSE PriceTotal(outs, n - 1) + outs[n].price

\* C15: find_market_consensus returns the unweighted arithmetic mean of the
\* prices of all outcomes of every market whose key equals the requested
\* market key, across all games and bookmakers and whatever the player, and
\* None when there is no such outcome (every market carrying a key and each
\* of these outcomes a price).
C15_ConsensusMean ==
    LET outs == OutcomesOfKeyInOrder(odds_data, target_market)
    IN  /\ ConsensusCalled
        /\ AllKeyed
        /\ \A i \in 1 .. Len(outs) : "price" \in DOMAIN outs[i]
        => /\ outs = <<>> => consensus_ret = Return(<<>>)
           /\ outs # <<>> =>
                consensus_ret = Return(<<Rat(PriceTotal(outs, Len(outs)), Len(outs))>>)

\* the mean of the prices of two players' outcomes: (-120 + 100) / 2
C15_Witness ==
    /\ ConsensusCalled
    /\ target_market = STR_player_points
    /\ OutcomesOfKeyInOrder(odds_data, target_market)
         = <<Outcome(<<STR_LEBRON_JAMES_Over>>, <<TestPoint>>, <<-TestLineMarketOdds>>),
             Outcome(<<STR_Stephen_Curry_Over>>, <<TestPoint>>, <<TestMarketOdds>>)>>
    /\ consensus_ret = Return(<<FromInt(-10)>>)

----------------------------------------------------------------------------
(* Claims about the Line Normalizer, checked under SpecNorm *)

\* the markets the scraper of sportsbook book parses, in the order it parses
\* them: the markets of its own bookmaker whose key holds 'player'
ParsedMarketsInOrder(games, book) ==
    Concat([g \in 1 .. Len(games) |->
      Concat([b \in 1 .. Len(games[g].bookmakers) |->
        IF games[g].bookmakers[b].key = BookmakerKey(book)
        THEN SelectSeq(games[g].bookmakers[b].markets,
                       LAMBDA m : StrIn(STR_player, m.key))
        ELSE <<>>])])

\* s without the prefix p, if it starts with p
StripLeading(s, p) ==
    IF Len(s) >= Len(p) /\ SubSeq(s, 1, Len(p)) = p
    THEN SubSeq(s, Len(p) + 1, Len(s))
    ELSE s

\* s without the suffix p, if it ends with p
StripTrailing(s, p) ==
    IF Len(s) >= Len(p) /\ SubSeq(s, Len(s) - Len(p) + 1, Len(s)) = p
    THEN SubSeq(s, 1, Len(s) - Len(p))
    ELSE s

\* C16: the market_type of a Line is the market key of the market it was
\* read from, without a leading "player_" and without a trailing
\* "_alternate" and otherwise unchanged.
C16_MarketTypeStripsEnds ==
    ParseCalled /\ Returned(parse_ret) =>
      \A i \in 1 .. Len(parse_ret.val) :
        \E m \in 1 .. Len(ParsedMarketsInOrder(odds_data, sportsbook)) :
          parse_ret.val[i].market_type
            = StripTrailing(StripLeading(ParsedMarketsInOrder(odds_data, sportsbook)[m].key,
                                         STR_player_),
                            STR__alternate)

\* Scenario 4: a Line read from the market "player_points_alternate" has the
\* market_type "points"
C16_Scenario4 ==
    /\ ParseCalled
    /\ Returned(parse_ret)
    /\ parse_ret.val # <<>>
    /\ \A m \in 1 .. Len(ParsedMarketsInOrder(odds_data, sportsbook)) :
         ParsedMarketsInOrder(odds_data, sportsbook)[m].key = STR_player_points_alternate
    /\ \A i \in 1 .. Len(parse_ret.val) : parse_ret.val[i].market_type = STR_points

\* the outcomes of the markets the scraper parses that have a non-empty name
\* and a point, in the order the scraper meets them
KeptOutcomesInOrder(games, book) ==
    SelectSeq(Concat([m \in 1 .. Len(ParsedMarketsInOrder(games, book)) |->
                        ParsedMarketsInOrder(games, book)[m].outcomes]),
              LAMBDA o : DictGetOr(o, "name", <<>>) # <<>> /\ "point" \in DOMAIN o)

\* w stands in s as a word: between spaces or the ends of s
HasWord(s, w) ==
    \E i \in 1 .. Len(s) - Len(w) + 1 :
      /\ SubSeq(s, i, i + Len(w) - 1) = w
      /\ i = 1 \/ s[i - 1] = " "
      /\ i + Len(w) - 1 = Len(s) \/ s[i + Len(w)] = " "

\* the claim of C17 about one description d and the over_under ou inferred
\* from it
OverUnderAsStated(d, ou) ==
    /\ StrIn(STR_under, lower(d)) \/ StrIn(STR_less, lower(d)) => ou = STR_under
    /\ /\ ~(StrIn(STR_under, lower(d)) \/ StrIn(STR_less, lower(d)))
       /\ StrIn(STR_over, lower(d)) \/ StrIn(STR_more, lower(d))
       => ou = STR_over
    /\ /\ ~(StrIn(STR_under, lower(d)) \/ StrIn(STR_less, lower(d)))
       /\ ~(StrIn(STR_over, lower(d)) \/ StrIn(STR_more, lower(d)))
       => ou = STR_over
    /\ /\ StrIn(STR_over, lower(d)) \/ StrIn(STR_more, lower(d))
       /\ ~HasWord(lower(d), STR_under)
       /\ ~HasWord(lower(d), STR_less)
       => ou = STR_over
    /\ d = STR_LeBron_James_Under_7_5_Assists => ou = STR_under

\* C17: the Line of an outcome is "under" when the description contains
\* "under" or "less" case-insensitively, otherwise "over"; a description
\* naming an over bet, with "over" or "more" and with no under-synonym as a
\* word, is "over"; "LeBron James Under 7.5 Assists" is "under".
C17_OverUnderInference ==
    /\ ParseCalled
    /\ Returned(parse_ret)
    /\ Len(parse_ret.val) = Len(KeptOutcomesInOrder(odds_data, sportsbook))
    => \A i \in 1 .. Len(parse_ret.val) :
         OverUnderAsStated(DictGetOr(KeptOutcomesInOrder(odds_data, sportsbook)[i],
                                     "description", <<>>),
                           parse_ret.val[i].over_under)

\* Scenario 5: the Line of "LeBron James Under 7.5 Assists" is "under"
C17_Scenario5 ==
    /\ ParseCalled
    /\ Returned(parse_ret)
    /\ Len(parse_ret.val) = 1
    /\ KeptOutcomesInOrder(odds_data, sportsbook)
         = <<DfsOutcome(<<STR_LeBron_James>>, <<STR_LeBron_James_Under_7_5_Assists>>,
                        <<AssistsPoint>>, <<FromInt(TestSportsbookOdds)>>)>>
    /\ parse_ret.val[1].over_under = STR_under

\* every game of the response carries the commence_time the scraper reads
\* before it parses the game's markets
AllCommence == \A g \in 1 .. Len(odds_data) : "commence_time" \in DOMAIN odds_data[g]

\* the Lines are the Lines of the outcomes outs, one each and in their order
LinesOf(result, outs) ==
    /\ Len(result) = Len(outs)
    /\ \A i \in 1 .. Len(outs) :
         /\ result[i].player_name = outs[i].name
         /\ result[i].line_value = outs[i].point
         /\ result[i].odds = DictGetOr(outs[i], "price", Zero)

\* C18 as it is stated: one Line for each outcome with a non-empty name and
\* a present threshold, in outcome order, nothing emitted and nothing raised
\* for the others.
C18_OneLinePerOutcomeAsStated ==
    ParseCalled /\ AllCommence =>
      /\ Returned(parse_ret)
      /\ LinesOf(parse_ret.val, KeptOutcomesInOrder(odds_data, sportsbook))

\* C18: the Line Normalizer emits exactly one Line for each outcome that has
\* a non-empty player name and a present threshold that is a number, in
\* outcome order; an outcome with no name, an empty name or no threshold
\* yields no Line and no error and the outcomes after it are still
\* processed; a named outcome whose threshold is present and is not a number
\* makes the call raise ValueError.
C18_OneLinePerOutcome ==
    ParseCalled /\ AllCommence =>
      IF \E i \in 1 .. Len(KeptOutcomesInOrder(odds_data, sportsbook)) :
           ~IsNumber(KeptOutcomesInOrder(odds_data, sportsbook)[i].point)
      THEN parse_ret = Raise("ValueError")
      ELSE /\ Returned(parse_ret)
           /\ LinesOf(parse_ret.val, KeptOutcomesInOrder(odds_data, sportsbook))

\* an outcome with no threshold is dropped and the outcome after it still
\* yields its Line
C18_Witness ==
    /\ ParseCalled
    /\ sportsbook = STR_Underdog
    /\ odds_data = <<Game(<<BookmakerOf("underdog", <<Market(STR_player_assists,
         <<DfsOutcome(<<STR_LeBron_James>>, <<STR_LeBron_James_Over_25_5_Points>>,
                      <<>>, <<FromInt(TestMarketOdds)>>),
           DfsOutcome(<<STR_LeBron_James>>, <<STR_LeBron_James_Under_7_5_Assists>>,
                      <<AssistsPoint>>, <<FromInt(TestSportsbookOdds)>>)>>)>>)>>)>>
    /\ Returned(parse_ret)
    /\ Len(parse_ret.val) = 1
    /\ parse_ret.val[1].line_value = AssistsPoint
    /\ parse_ret.val[1].over_under = STR_under

\* the parts joined by sep
RECURSIVE JoinWith(_, _)
JoinWith(parts, sep) ==
    IF Len(parts) = 1 THEN parts[1]
    ELSE parts[1] \o sep \o JoinWith(Tail(parts), sep)

\* the six fields of a Line its unique_id is made of
IdFields(line) ==
    <<line.sportsbook, line.sport, line.player_name, line.market_type,
      Format(line.line_value), line.over_under>>

STR_prizepicks_nba_lebron_james_points_25_5_over == <<"p", "r", "i", "z", "e", "p", "i", "c", "k", "s", "_", "n", "b", "a", "_", "l", "e", "b", "r", "o", "n", "_", "j", "a", "m", "e", "s", "_", "p", "o", "i", "n", "t", "s", "_", "2", "5", ".", "5", "_", "o", "v", "e", "r">>

\* C20: the unique_id of a Line is its sportsbook, sport, player_name,
\* market_type, line_value and over_under joined by underscores, with spaces
\* replaced by underscores, in lower case; two Lines that agree on these six
\* fields have the same unique_id whatever their other fields.
C20_UniqueId ==
    ParseCalled /\ Returned(parse_ret) =>
      /\ \A i \in 1 .. Len(parse_ret.val) :
           parse_ret.val[i].unique_id
             = lower(replace(JoinWith(IdFields(parse_ret.val[i]), STR_underscore),
                             STR_space, STR_underscore))
      /\ \A i, j \in 1 .. Len(parse_ret.val) :
           IdFields(parse_ret.val[i]) = IdFields(parse_ret.val[j])
             => parse_ret.val[i].unique_id = parse_ret.val[j].unique_id

\* two Lines of LeBron James, points 25.5 over, at PrizePicks with the odds
\* +100 and, its price missing, 0: both have the id
\* prizepicks_nba_lebron_james_points_25.5_over
C20_Witness ==
    /\ ParseCalled
    /\ Returned(parse_ret)
    /\ Len(parse_ret.val) = 2
    /\ parse_ret.val[1].odds = FromInt(TestMarketOdds)
    /\ parse_ret.val[2].odds = Zero
    /\ parse_ret.val[1].unique_id = STR_prizepicks_nba_lebron_james_points_25_5_over
    /\ parse_ret.val[2].unique_id = STR_prizepicks_nba_lebron_james_points_25_5_over

----------------------------------------------------------------------------
(* Claims about the scheduler, checked under SpecPipe *)

PipeCalled == lines_with_odds # Raise("not called")

\* what the Market Matcher finds for a Line in what the provider holds (an
\* Optional price)
FoundFor(line) ==
    get_market_odds_for_player(odds_data, line.player_name, line.market_type,
                               line.line_value).val

\* C14: a Line is in the list get_market_odds_for_lines returns if and only
\* if a market odds value was found for it, and a returned Line carries the
\* market odds found for it; a Line with no match is not in the list.
C14_LinesWithOdds ==
    PipeCalled =>
      /\ \A i \in 1 .. Len(lines) :
           FoundFor(lines[i]) # <<>>
             <=> \E j \in 1 .. Len(lines_with_odds.val) :
                   lines_with_odds.val[j]
                     = DictUpdate(lines[i], [market_odds |-> FoundFor(lines[i])[1]])
      /\ \A j \in 1 .. Len(lines_with_odds.val) :
           "market_odds" \in DOMAIN lines_with_odds.val[j]

\* the list is returned empty although the provider holds LeBron James over
\* 25.5 points at -120 and the first Line is LeBron James, points, 25.5
C14_NothingFound ==
    /\ PipeCalled
    /\ lines # <<>>
    /\ lines[1].player_name = STR_LeBron_James
    /\ FoundFor(lines[1]) = <<-TestLineMarketOdds>>
    /\ lines_with_odds = Return(<<>>)

\* a record handed to the EV engine
EngineCalled == ev_call.name = "calculate_ev" /\ "sportsbook_odds" \in DOMAIN ev_call

\* C19: no record that fails validate_line_schema is passed to the EV
\* engine: a record calculate_ev is called with passes validate_line_schema.
C19_OnlyValidRecords ==
    EngineCalled => validate_line_schema(ev_call.sportsbook_odds)

\* calculate_ev has been called with a record that lacks six of the twelve
\* required fields
C19_InvalidRecordPassed ==
    /\ EngineCalled
    /\ ev_call.sportsbook_odds = sample_line
    /\ ~validate_line_schema(sample_line)
    /\ {"sport", "league", "event_name", "event_date", "scraped_at", "unique_id"}
         \cap DOMAIN sample_line = {}

----------------------------------------------------------------------------
(* Claims about calculate_line_ev and the odds formats, checked under SpecEV *)

EvResultFields ==
    {"ev_dollars", "ev_percentage", "win_probability", "payout_if_win",
     "breakeven_probability"}

\* what calculate_ev computes for the Line's odds and the market odds, in
\* American format at the default stake
LineEvResult ==
    calculate_ev(ev_call.line_data["odds"], FromInt(line_market_odds),
                 FromInt(DefaultBet), "american")

\* C22: the record calculate_line_ev returns contains every field of the
\* input Line with its original value, every field of the EV Result
\* (ev_dollars, ev_percentage, win_probability, payout_if_win,
\* breakeven_probability) with the value calculate_ev computes, and the
\* boolean is_positive_ev.
C22_MergedRecord ==
    Called("calculate_line_ev") /\ Returned(ev_ret) =>
      /\ \A k \in DOMAIN ev_call.line_data :
           k \in DOMAIN ev_ret.val /\ ev_ret.val[k] = ev_call.line_data[k]
      /\ \A k \in EvResultFields :
           k \in DOMAIN ev_ret.val /\ ev_ret.val[k] = LineEvResult.val[k]
      /\ "is_positive_ev" \in DOMAIN ev_ret.val
      /\ ev_ret.val["is_positive_ev"] \in BOOLEAN

\* the self-test's Line at -110 against +120: the record returned has the
\* Line's fields, four fields of the EV Result and the flag, and no
\* breakeven_probability
C22_NoBreakeven ==
    /\ Called("calculate_line_ev")
    /\ line_odds = TestSportsbookOdds
    /\ line_market_odds = TestLineMarketOdds
    /\ Returned(ev_ret)
    /\ DOMAIN ev_ret.val
         = required_fields \cup (EvResultFields \ {"breakeven_probability"})
             \cup {"market_odds", "is_positive_ev"}
    /\ \A k \in EvResultFields \ {"breakeven_probability"} :
         ev_ret.val[k] = LineEvResult.val[k]
    /\ \A k \in required_fields : ev_ret.val[k] = ev_call.line_data[k]

\* C23: calculate_ev in decimal format uses the given odds unchanged: for
\* American odds As and Am that are not zero and every stake,
\* calculate_ev(D(As), D(Am), stake, "decimal") gives what
\* calculate_ev(As, Am, stake, "american") gives, D being american_to_decimal.
C23_DecimalPassThrough ==
    Called("calculate_ev in decimal format") =>
      ev_ret = calculate_ev(FromInt(line_odds), FromInt(line_market_odds),
                            FromInt(ev_call.bet_amount), "american")

\* -110 against +100 at the default stake, handed over as the decimal odds
\* 21/11 and 2: the EV is -4.55 dollars, as in American format
C23_Witness ==
    /\ Called("calculate_ev in decimal format")
    /\ line_odds = TestSportsbookOdds
    /\ line_market_odds = TestMarketOdds
    /\ ev_call.sportsbook_odds = Rat(21, 11)
    /\ ev_call.market_odds = FromInt(2)
    /\ ev_call.bet_amount = DefaultBet
    /\ Returned(ev_ret)
    /\ ev_ret.val.ev_dollars = Rat(-455, 100)
    /\ ev_ret.val.sportsbook_decimal_odds = Rat(1909, 1000)

----------------------------------------------------------------------------
(* Claims about failures inside the core, checked under SpecMatch *)

\* the matcher's scan of the response met a malformed record before it
\* reached a price: a market with no key, or an eligible outcome with no price
ScanRaised ==
    /\ SupportedType
    /\ ~Returned(ScanGames(odds_data, 1, market_mapping(lower(market_type))[1],
                           player_name, line_value))

\* C24: an invalid-input condition met inside the core is surfaced to the
\* immediate caller as a failure and is not turned into a normal result: when
\* the matcher meets a malformed market or outcome, its call does not return
\* normally (it returns neither "no match" nor a price).
C24_InvalidInputSurfaced ==
    MatcherCalled /\ ScanRaised => ~Returned(match_ret)

\* every market has its key, the first eligible outcome of the player_points
\* markets has no price, and the matcher answers None
C24_Swallowed ==
    /\ MatcherCalled
    /\ SupportedType
    /\ AllKeyed
    /\ \E i \in 1 .. Len(OutcomesOfKeyInOrder(odds_data, STR_player_points)) :
         /\ FirstEligible(OutcomesOfKeyInOrder(odds_data, STR_player_points), i)
         /\ "price" \notin DOMAIN OutcomesOfKeyInOrder(odds_data, STR_player_points)[i]
    /\ match_ret = Return(<<>>)

----------------------------------------------------------------------------
(* Claims about the scheduler's EV step, checked under SpecPipe *)

\* calculate_ev_for_lines has been called
EvForLinesCalled == ev_call.name = "calculate_ev_for_lines"

\* the EV result of a Line with market odds, by calculate_ev on its odds
EvOfOdds(line) == calculate_ev(line.odds, line.market_odds, FromInt(DefaultBet), "american")

\* the positive-EV opportunities of a list of Lines with market odds: one
\* merged record per Line whose EV percentage is above 0, in the list's order
RECURSIVE PositiveEvOpportunities(_)
PositiveEvOpportunities(list) ==
    IF list = <<>> THEN <<>>
    ELSE (IF Returned(EvOfOdds(Head(list))) /\ RatGt(EvOfOdds(Head(list)).val.ev_percentage, Zero)
          THEN <<DictUpdate(Head(list), EvOfOdds(Head(list)).val)>>
          ELSE <<>>) \o PositiveEvOpportunities(Tail(list))

\* C25: calculate_ev_for_lines returns exactly the positive-EV opportunities
\* of its input: one merged record (Line and EV result) per input Line whose
\* EV percentage is above 0, in input order, and none for the other Lines
C25_ExactlyPositiveEv ==
    EvForLinesCalled =>
        opportunities = Return(PositiveEvOpportunities(ev_call.lines_with_odds))

\* calculate_ev_for_lines was handed a Line of positive EV and returned no
\* opportunity
C25_PositiveEvDropped ==
    /\ EvForLinesCalled
    /\ PositiveEvOpportunities(ev_call.lines_with_odds) # <<>>
    /\ opportunities = Return(<<>>)

\* an answer of calculate_ev that is a result record holding ev_percentage
\* and expected_profit
HasExpectedProfit(r) ==
    Returned(r) /\ {"ev_percentage", "expected_profit"} \subseteq DOMAIN r.val

\* C26: called with a Line record as first argument and that Line's market
\* odds as second argument, as test_complete_pipeline_v2.py and
\* calculate_ev_for_lines call it, calculate_ev returns a result record that
\* contains ev_percentage and expected_profit instead of failing
C26_RecordCallReturns ==
    /\ EngineCalled => HasExpectedProfit(ev_ret)
    /\ EvForLinesCalled =>
         \A i \in 1 .. Len(ev_call.lines_with_odds) :
            HasExpectedProfit(calculate_ev_of_record(ev_call.lines_with_odds[i],
                                                     ev_call.lines_with_odds[i].market_odds))

\* calculate_ev was called with the sample record and its market odds and
\* raised TypeError; and the record it returns for numbers has no
\* expected_profit
C26_RecordCallRaises ==
    /\ EngineCalled
    /\ ev_call.sportsbook_odds = sample_line
    /\ ev_call.market_odds = sample_market_odds
    /\ ev_ret = Raise("TypeError")
    /\ "expected_profit" \notin
         DOMAIN calculate_ev(sample_line.odds, FromInt(TestMarketOdds),
                             FromInt(DefaultBet), "american").val

----------------------------------------------------------------------------
(* Claims about the scheduler's run, checked under SpecMain *)

\* run_all_scrapers has returned
Scraped == pc \notin {"not running", "scrape"}

\* the Lines of platform i's scraper if it returned normally, none if it raised
LinesOfPlatform(i) ==
    IF Returned(scraper_rets[i]) THEN scraper_rets[i].val ELSE <<>>

\* C28: a failure of one platform's scraper does not abort run_all_scrapers
\* or discard the other platforms' results: it returns, and the returned list
\* is the concatenation, in platform order (PrizePicks, Underdog, Fliff), of
\* the Lines of every scraper that returned normally
C28_ConcatenationOfReturned ==
    /\ pc = "select" => steps = <<"scrape">>
    /\ Scraped =>
         /\ Len(scraper_rets) = Len(Platforms)
         /\ lines = LinesOfPlatform(1) \o LinesOfPlatform(2) \o LinesOfPlatform(3)
         /\ \A i \in 1 .. Len(Platforms) :
               \A k \in 1 .. Len(LinesOfPlatform(i)) :
                  LinesOfPlatform(i)[k].sportsbook = Platforms[i]

\* the Underdog scraper raised between a PrizePicks scraper and a Fliff
\* scraper that returned Lines, and run_all_scrapers returned the PrizePicks
\* Lines followed by the Fliff Lines
C28_Witness ==
    /\ Scraped
    /\ ~Returned(scraper_rets[2])
    /\ Returned(scraper_rets[1]) /\ Len(scraper_rets[1].val) = 2
    /\ Returned(scraper_rets[3]) /\ Len(scraper_rets[3].val) = 1
    /\ lines = scraper_rets[1].val \o scraper_rets[3].val
    /\ lines[1].sportsbook = STR_PrizePicks
    /\ lines[3].sportsbook = STR_Fliff

\* main has ended: it returned after its report, or its except clause raised
Ended == pc \in {"done", "raised"}

\* the Lines that obtained market odds in this run
Found == IF Returned(lines_with_odds) THEN lines_with_odds.val ELSE <<>>

\* the fabricated sample opportunities, whenever they were made
IsSample(opps) == \E now \in Clock : opps = create_sample_opportunities(now)

\* the steps of a run up to its first attempt to persist: match only when a
\* Line was scraped, compute only when a Line obtained market odds
StepsOfRun ==
    <<"scrape">> \o (IF lines # <<>> THEN <<"match">> ELSE <<>>)
                 \o (IF Found # <<>> THEN <<"compute">> ELSE <<>>)
                 \o <<"persist">>

\* s is a prefix of t
IsPrefix(s, t) == Len(s) <= Len(t) /\ s = SubSeq(t, 1, Len(s))

\* C27 as stated: every run of main performs the steps scrape, match,
\* compute, persist in that order and ends with a snapshot persisted, whose
\* opportunities are the sample ones exactly when no Line was scraped, no Line
\* obtained market odds or a step raised
C27_AllStepsInOrder ==
    Ended =>
        /\ steps = <<"scrape", "match", "compute", "persist">>
        /\ cache # <<>>
        /\ IsSample(cache[1].opportunities)
             <=> (lines = <<>> \/ Found = <<>> \/ steps # StepsOfRun)

\* C27, amended: a run performs scrape, then match only when a Line was
\* scraped, then compute only when a Line obtained market odds, then persist;
\* when writing the snapshot raises, persist is tried once more with the
\* sample opportunities, and main raises without a snapshot when that fails
\* too.  A run that returns has persisted a snapshot: of the sample
\* opportunities when no Line was scraped, no Line obtained market odds or a
\* step raised, and of what calculate_ev_for_lines returned otherwise
C27_StepsAndSnapshot ==
    /\ pc # "not running" => IsPrefix(steps, StepsOfRun \o <<"persist">>)
    /\ pc = "done" =>
         /\ steps \in {StepsOfRun, StepsOfRun \o <<"persist">>}
         /\ cache # <<>>
         /\ cache[1].total_count = Len(cache[1].opportunities)
         /\ IF lines = <<>> \/ Found = <<>> \/ steps # StepsOfRun
            THEN IsSample(cache[1].opportunities)
            ELSE cache[1].opportunities = calculate_ev_for_lines(Found)
    /\ pc = "raised" =>
         /\ steps = StepsOfRun \o <<"persist">>
         /\ cache = <<>>

\* a run that scraped Lines has returned: it performed scrape, match and
\* persist, no compute, and the snapshot holds the three sample opportunities
C27_Witness ==
    /\ pc = "done"
    /\ lines # <<>>
    /\ steps = <<"scrape", "match", "persist">>
    /\ cache # <<>>
    /\ IsSample(cache[1].opportunities)
    /\ cache[1].total_count = 3

----------------------------------------------------------------------------
(* Claims about the mock market odds, checked under SpecMock *)

\* get_mock_market_odds has been called
MockCalled == ev_call.name = "get_mock_market_odds"

\* x is an odds value between the ends of the range of market type mtype
InConfiguredRange(x, mtype) ==
    \E a \in {odds_range(mtype)[1], odds_range(mtype)[2]} :
    \E b \in {odds_range(mtype)[1], odds_range(mtype)[2]} :
        ~RatLt(x, FromInt(a)) /\ ~RatLt(FromInt(b), x)

\* C29: for every market type get_mock_market_odds returns without error a
\* non-zero American odds value inside the market type's configured range, so
\* that calculate_line_ev succeeds for every scraped Line paired with mock
\* market odds and the number of enhanced lines equals the number of scraped
\* lines
C29_MockOddsAlwaysValid ==
    /\ MockCalled =>
         /\ Returned(ev_call.ret)
         /\ ev_call.ret.val # Zero
         /\ InConfiguredRange(ev_call.ret.val, ev_call.market_type)
    /\ Returned(lines_with_odds)
    /\ Len(lines_with_odds.val) <= Len(lines)

\* get_mock_market_odds was asked the odds of a touchdowns Line and raised
\* ValueError, which ended the loop without the enhanced lines
C29_TouchdownsRaise ==
    /\ MockCalled
    /\ ev_call.market_type = STR_touchdowns
    /\ ev_call.ret = Raise("ValueError")
    /\ lines_with_odds = Raise("ValueError")

----------------------------------------------------------------------------
(* Claims about the Lines the normalizer hands to the EV engine, checked *)
(* under SpecNorm                                                        *)

\* the Lines _parse_odds_to_lines returned whose odds are a number: those of
\* the outcomes with a numeric price and of the outcomes with no price
NumericOddsLines ==
    IF Returned(parse_ret)
    THEN {parse_ret.val[i] : i \in {k \in 1 .. Len(parse_ret.val) : IsNumber(parse_ret.val[k].odds)}}
    ELSE {}

\* C30: every Line the normalizer emits from an outcome with a numeric price,
\* and from an outcome with no price, passes validate_line_schema and can be
\* fed to the EV engine without error: its line_value is numeric, its
\* over_under is "over" or "under", and its odds are a non-zero American odds
\* value
C30_LinesFeedEngine ==
    \A line \in NumericOddsLines :
        /\ validate_line_schema(line)
        /\ IsNumber(line.line_value)
        /\ line.over_under \in {STR_over, STR_under}
        /\ line.odds # Zero
        /\ Returned(calculate_line_ev(line, FromInt(TestMarketOdds)))

\* the normalizer emitted a Line of odds 0, from an outcome with no price:
\* it passes validate_line_schema, and calculate_line_ev raises
\* ZeroDivisionError on it
C30_ZeroOddsLine ==
    \E line \in NumericOddsLines :
        /\ line.odds = Zero
        /\ validate_line_schema(line)
        /\ calculate_line_ev(line, FromInt(TestMarketOdds)) = Raise("ZeroDivisionError")

====
